---- MODULE Spec2Model ----
(***************************************************************************)
(* Verification model of the FFT engine of ascott7/musicVisualization:     *)
(* the iterative, in-place C++ fft/ifft of fft.hpp (bit reversal by lookup *)
(* table, butterflies, forward divide-by-n) and the recursive C fft/ifft   *)
(* of fft.c.                                                               *)
(*                                                                         *)
(* Arithmetic is exact.  A complex number is an element of the cyclotomic  *)
(* field Q(zeta), zeta = exp(2*pi*i/RootN), RootN the longest transform    *)
(* length modelled: every root of unity a transform of length <= RootN     *)
(* uses is a power of zeta.                                                *)
(***************************************************************************)
EXTENDS Integers, Sequences, FiniteSets, TLC

\* ---------------------------------------------------------------- bounds
\* Longest buffer a caller hands to the C++ transform.
MaxLen == 8

\* Longest array handed to the C transform of fft.c.
CMaxLen == 4
\* Stack frames of do_fft the process can hold before the stack is exhausted.
StackFrames == 6

\* errno's EINVAL
EINVAL == 22

\* F applied to the value of e: e is evaluated once, before F uses it, as a
\* C++ argument or assignment is
Eval(F(_), e) == CHOOSE r \in {F(v) : v \in {e}} : TRUE
Eval2(F(_, _), e1, e2) == CHOOSE r \in {F(v1, v2) : v1 \in {e1}, v2 \in {e2}} : TRUE

RECURSIVE Pow2(_)
Pow2(k) == IF k = 0 THEN 1 ELSE 2 * Pow2(k - 1)

RECURSIVE FloorPow2(_)
\* the largest power of two that is at most m (m >= 1)
FloorPow2(m) == IF m < 2 THEN 1 ELSE 2 * FloorPow2(m \div 2)

\* the longest valid transform length, and the order of the root of unity
\* zeta all shorter transforms' roots are powers of
RootN == FloorPow2(MaxLen)
Half == RootN \div 2

\* ------------------------------------------------- exact complex numbers
\* [n |-> <<c_0, ..., c_{Half-1}>>, d |-> 2^k] is (sum c_j zeta^j) / d,
\* with zeta^Half = -1; kept in lowest terms.
AllEven(s) == \A j \in 1..Len(s) : s[j] % 2 = 0

RECURSIVE CNorm(_)
CNorm(z) ==
    IF z.d > 1 /\ AllEven(z.n)
    THEN CNorm([n |-> [j \in 1..Len(z.n) |-> z.n[j] \div 2], d |-> z.d \div 2])
    ELSE z

CInt(a) == [n |-> [j \in 1..Half |-> IF j = 1 THEN a ELSE 0], d |-> 1]
Zero == CInt(0)
One == CInt(1)

\* zeta^e for any integer e
Zeta(e) ==
    LET r == e % RootN
    IN  [n |-> [j \in 1..Half |->
                  IF r < Half THEN (IF j = r + 1 THEN 1 ELSE 0)
                  ELSE (IF j = r - Half + 1 THEN -1 ELSE 0)],
         d |-> 1]

ImagUnit == Zeta(Half \div 2)

Max(a, b) == IF a >= b THEN a ELSE b

CAdd(x, y) ==
    LET d == Max(x.d, y.d)
    IN  CNorm([n |-> [j \in 1..Half |->
                        x.n[j] * (d \div x.d) + y.n[j] * (d \div y.d)],
               d |-> d])

CNeg(x) == [n |-> [j \in 1..Half |-> -x.n[j]], d |-> x.d]

CSub(x, y) == CAdd(x, CNeg(y))

RECURSIVE SumTo(_, _)
\* f[1] + ... + f[k]
SumTo(f, k) == IF k = 0 THEN 0 ELSE f[k] + SumTo(f, k - 1)

RECURSIVE ConvSum(_, _, _, _)
\* the coefficient of zeta^(m-1) in x*y: terms j..Half of the convolution,
\* those that wrap past zeta^Half negated
ConvSum(x, y, m, j) ==
    IF j > Half THEN 0
    ELSE (IF j <= m THEN x[j] * y[m - j + 1] ELSE -(x[j] * y[m - j + 1 + Half]))
         + ConvSum(x, y, m, j + 1)

\* product modulo zeta^Half = -1
CMul(x, y) ==
    Eval2(LAMBDA a, b : CNorm([n |-> [m \in 1..Half |-> ConvSum(a.n, b.n, m, 1)],
                               d |-> a.d * b.d]),
          x, y)

\* division by a power of two
CDiv(x, k) == CNorm([n |-> x.n, d |-> x.d * k])

RECURSIVE CPow(_, _)
CPow(z, k) ==
    IF k = 0 THEN One ELSE Eval(LAMBDA p : CMul(z, p), CPow(z, k - 1))

RECURSIVE CSum(_, _)
\* f[1] + ... + f[k] of complex numbers
CSum(f, k) ==
    IF k = 0 THEN Zero ELSE Eval(LAMBDA s : CAdd(s, f[k]), CSum(f, k - 1))

\* std::exp(i*2*pi*sign/n): the principal n-th root of unity, or its inverse
RootOfUnity(n, forward) ==
    IF forward THEN Zeta(RootN - RootN \div n) ELSE Zeta(RootN \div n)

\* ------------------------------------------------ fft.hpp: bit reversal
\* static const unsigned char bit_rev_lut[256]
bit_rev_lut ==
    <<0, 128, 64, 192, 32, 160, 96, 224, 16, 144, 80, 208, 48, 176, 112, 240,
       8, 136, 72, 200, 40, 168, 104, 232, 24, 152, 88, 216, 56, 184, 120, 248,
       4, 132, 68, 196, 36, 164, 100, 228, 20, 148, 84, 212, 52, 180, 116, 244,
       12, 140, 76, 204, 44, 172, 108, 236, 28, 156, 92, 220, 60, 188, 124, 252,
       2, 130, 66, 194, 34, 162, 98, 226, 18, 146, 82, 210, 50, 178, 114, 242,
       10, 138, 74, 202, 42, 170, 106, 234, 26, 154, 90, 218, 58, 186, 122, 250,
       6, 134, 70, 198, 38, 166, 102, 230, 22, 150, 86, 214, 54, 182, 118, 246,
       14, 142, 78, 206, 46, 174, 110, 238, 30, 158, 94, 222, 62, 190, 126, 254,
       1, 129, 65, 193, 33, 161, 97, 225, 17, 145, 81, 209, 49, 177, 113, 241,
       9, 137, 73, 201, 41, 169, 105, 233, 25, 153, 89, 217, 57, 185, 121, 249,
       5, 133, 69, 197, 37, 165, 101, 229, 21, 149, 85, 213, 53, 181, 117, 245,
       13, 141, 77, 205, 45, 173, 109, 237, 29, 157, 93, 221, 61, 189, 125, 253,
       3, 131, 67, 195, 35, 163, 99, 227, 19, 147, 83, 211, 51, 179, 115, 243,
       11, 139, 75, 203, 43, 171, 107, 235, 27, 155, 91, 219, 59, 187, 123, 251,
       7, 135, 71, 199, 39, 167, 103, 231, 23, 151, 87, 215, 55, 183, 119, 247,
       15, 143, 79, 207, 47, 175, 111, 239, 31, 159, 95, 223, 63, 191, 127, 255>>

\* v << s, or v >> -s when s is negative; v is one byte, so a right shift
\* by 8 or more leaves nothing
ShiftLeft(v, s) ==
    IF s >= 0 THEN v * Pow2(s)
    ELSE IF -s >= 8 THEN 0 ELSE v \div Pow2(-s)

\* mutant: the mask 0xf for 0xff
ByteOf_nibble(word, b) == IF 8 * b >= 31 THEN 0 ELSE (word \div Pow2(8 * b)) % 16

\* (word & mask << i) >> i for i = 8*b; model words stay below 2^31
ByteOf(word, b) == IF 8 * b >= 31 THEN 0 ELSE (word \div Pow2(8 * b)) % 256

\* 8*sizeof word, size_t being 64 bits wide
WordBits == 64

\* mutant: the shift one bit short
LutShift_low(b) == WordBits - (8 * b + 9)

\* the shift of byte b's table entry into reversed
LutShift(b) == WordBits - (8 * b + 8)

\* The body of bit_reverse_word, reading the table from tab: byte b of word
\* goes through the table to bit position LutShift(b), then the whole word
\* is shifted right by WordBits - order.  The two shifts are applied
\* together to each byte (the bytes occupy disjoint bits, so OR is a sum and
\* no bit crosses from one byte to another).
ReverseWord(tab, word, order) ==
    SumTo([k \in 1..(WordBits \div 8) |->
             ShiftLeft(tab[ByteOf(word, k - 1) + 1],
                       LutShift(k - 1) - (WordBits - order))],
          WordBits \div 8)

\* size_t bit_reverse_word(size_t word, unsigned order)
bit_reverse_word(word, order) == ReverseWord(bit_rev_lut, word, order)

RECURSIVE Ffs(_)
\* __builtin_ffs: one plus the index of the least significant set bit, 0 for 0
Ffs(x) == IF x = 0 THEN 0 ELSE IF x % 2 = 1 THEN 1 ELSE 1 + Ffs(x \div 2)

\* std::swap(data.at(i), data.at(rev)), indices counted from 0
SwapAt(data, i, rev) ==
    [data EXCEPT ![i + 1] = data[rev + 1], ![rev + 1] = data[i + 1]]

\* mutant: the reordering pass left out
bit_reverse_sort_skipped(data) == data

\* mutant: the test left out, every index swapped with its reversal
SwapNeeded_always(rev, i) == TRUE

\* if (rev >= i)
SwapNeeded(rev, i) == rev >= i

RECURSIVE SortFrom(_, _, _)
\* for (i = ...; i < size; ++i) of bit_reverse_sort
SortFrom(data, i, order) ==
    IF i >= Len(data) THEN data
    ELSE LET rev == bit_reverse_word(i, order)
         IN  Eval(LAMBDA d : SortFrom(d, i + 1, order),
                  IF SwapNeeded(rev, i) THEN SwapAt(data, i, rev) ELSE data)

\* void bit_reverse_sort(data)
bit_reverse_sort(data) == SortFrom(data, 1, Ffs(Len(data)) - 1)

\* ------------------------------------------------ fft.hpp: the transform
RECURSIVE BitAnd(_, _)
BitAnd(a, b) ==
    IF a = 0 \/ b = 0 THEN 0
    ELSE (a % 2) * (b % 2) + 2 * BitAnd(a \div 2, b \div 2)

\* mutant: the n < 2 test left out
LengthRejected_no_min(n) == (IF n = 0 THEN 0 ELSE BitAnd(n, n - 1)) # 0

\* mutant: n <= 2 for n < 2
LengthRejected_le2(n) == (IF n = 0 THEN 0 ELSE BitAnd(n, n - 1)) # 0 \/ n <= 2

\* (n & (n-1)) != 0 || n < 2; for n = 0 the unsigned n-1 is all ones and
\* the conjunction is 0
LengthRejected(n) ==
    (IF n = 0 THEN 0 ELSE BitAnd(n, n - 1)) # 0 \/ n < 2

\* mutant: the odd operand dropped from the sum
ButterflyLo_no_odd(even, odd, w_curr) == CAdd(even, w_curr)

\* data.at(i) = even + odd*w_curr
ButterflyLo(even, odd, w_curr) == CAdd(even, CMul(odd, w_curr))

\* mutant: a sum where the difference belongs
ButterflyHi_plus(even, odd, w_curr) == CAdd(even, CMul(odd, w_curr))

\* data.at(i+grp_size/2) = even - odd*w_curr
ButterflyHi(even, odd, w_curr) == CSub(even, CMul(odd, w_curr))

\* mutant: the stride of the twiddle taken for its exponent
TwiddleStep_grp(w_n, n, grp_size) == CPow(w_n, grp_size)

\* w_step = std::pow(w_n, n/grp_size)
TwiddleStep(w_n, n, grp_size) == CPow(w_n, n \div grp_size)

RECURSIVE GroupLoop(_, _, _, _, _, _)
\* for (i = start; i < start + grp_size/2; ++i)
GroupLoop(data, grp_size, start, i, w_curr, w_step) ==
    IF i >= start + grp_size \div 2 THEN data
    ELSE LET even == data[i + 1]
             odd == data[i + grp_size \div 2 + 1]
         IN  Eval2(LAMBDA d, w : GroupLoop(d, grp_size, start, i + 1, w, w_step),
                   [data EXCEPT
                      ![i + 1] = ButterflyLo(even, odd, w_curr),
                      ![i + grp_size \div 2 + 1] = ButterflyHi(even, odd, w_curr)],
                   CMul(w_curr, w_step))

RECURSIVE StageLoop(_, _, _, _)
\* for (grp = 0; grp < n/grp_size; ++grp)
StageLoop(data, grp_size, grp, w_step) ==
    IF grp >= Len(data) \div grp_size THEN data
    ELSE Eval(LAMBDA d : StageLoop(d, grp_size, grp + 1, w_step),
              GroupLoop(data, grp_size, grp * grp_size, grp * grp_size,
                        One, w_step))

RECURSIVE Stages(_, _, _)
\* for (grp_size = 2; grp_size <= n; grp_size *= 2)
Stages(data, grp_size, w_n) ==
    IF grp_size > Len(data) THEN data
    ELSE Eval(LAMBDA w_step :
                Eval(LAMBDA d : Stages(d, grp_size * 2, w_n),
                     StageLoop(data, grp_size, 0, w_step)),
              TwiddleStep(w_n, Len(data), grp_size))

\* mutant: the division left out
ScalePass_never(forward, data) == data

\* mutant: the division done in both directions
ScalePass_always(forward, data) ==
    [k \in 1..Len(data) |-> CDiv(data[k], Len(data))]

\* if (forward) for (i = 0; i < n; ++i) data.at(i) /= n
ScalePass(forward, data) ==
    IF forward THEN [k \in 1..Len(data) |-> CDiv(data[k], Len(data))]
    ELSE data

\* int fft_impl<forward>(data): the return value and the buffer it leaves
fft_impl(forward, data) ==
    LET n == Len(data)
    IN  IF LengthRejected(n) THEN [ret |-> EINVAL, data |-> data]
        ELSE [ret |-> 0,
              data |-> ScalePass(forward,
                                 Stages(bit_reverse_sort(data), 2,
                                        RootOfUnity(n, forward)))]

\* int fft(data)
fft(data) == fft_impl(TRUE, data)

\* int ifft(data)
ifft(data) == fft_impl(FALSE, data)

\* ------------------------------------------------------------ the caller
\* A caller owns one buffer and calls fft or ifft on it, then once more on
\* what the first call left (fft_test.cpp: fft(copy), then ifft(copy)).
VARIABLES
    data,    \* the caller's buffer, std::vector<std::complex<double>>
    x0,      \* the buffer as first handed over
    calls,   \* the calls made so far: <<[op, ret, before]>>
    lin,     \* a caller transforming x, y and a*x + b*y (see SpecLin)
    cn,      \* fft_test.c: n, the length of the arrays in, out, inv
    cmem,    \* fft_test.c: the arrays in, out, inv
    ccalls,  \* the calls of the C fft/ifft made so far (see SpecC)
    srt,     \* a caller of bit_reverse_sort and its frame (see SpecSort)
    lut,     \* the storage of fft.hpp's static bit_rev_lut
    bufs,    \* the vectors handed to fft/ifft by threads (see SpecStep)
    thr,     \* the threads: each one's frame of fft_impl and its history
    ply,     \* a run of play_song on one song (see SpecPlay)
    led      \* the registers of the LED driver's modules (see SpecLed)

vars == <<data, x0, calls, lin, cn, cmem, ccalls, srt, lut, bufs, thr,
         ply, led>>

\* no song is being played and the LED driver is not clocked
PlayIdle == /\ ply = <<>>
            /\ led = <<>>

\* no thread is running a transform step by step, and no caller of
\* bit_reverse_sort
StepIdle == /\ srt = <<>>
            /\ lut = <<>>
            /\ bufs = <<>>
            /\ thr = <<>>

\* no C caller running
CIdle == /\ cn = 0
         /\ cmem = <<>>
         /\ ccalls = <<>>

\* the sample values a caller puts in a buffer
Samples == {One, CNeg(One), ImagUnit}

\* buffers of length len with at most two nonzero samples
SparseBuffers(len) ==
    IF len = 0 THEN {<<>>}
    ELSE {[k \in 1..len |-> IF k = p THEN a ELSE IF k = q THEN b ELSE Zero] :
            p \in 1..len, q \in 1..len, a \in Samples \cup {Zero},
            b \in Samples \cup {Zero}}

Inputs == UNION {SparseBuffers(len) : len \in 0..MaxLen}

\* no linearity run in progress
LinIdle == [pc |-> "idle"]

Init ==
    /\ PlayIdle
    /\ data \in Inputs
    /\ x0 = data
    /\ calls = <<>>
    /\ lin = LinIdle
    /\ CIdle
    /\ StepIdle

\* ret = fft(data)
CallFft ==
    /\ Len(calls) < 2
    /\ LET r == fft(data)
       IN  /\ data' = r.data
           /\ calls' = Append(calls, [op |-> "fft", ret |-> r.ret, before |-> data])
    /\ UNCHANGED <<x0, lin, cn, cmem, ccalls, srt, lut, bufs, thr, ply, led>>

\* ret = ifft(data)
CallIfft ==
    /\ Len(calls) < 2
    /\ LET r == ifft(data)
       IN  /\ data' = r.data
           /\ calls' = Append(calls, [op |-> "ifft", ret |-> r.ret, before |-> data])
    /\ UNCHANGED <<x0, lin, cn, cmem, ccalls, srt, lut, bufs, thr, ply, led>>

Next == CallFft \/ CallIfft

Spec == Init /\ [][Next]_vars

\* ----------------------------------------- a caller of fft on three buffers
\* buffers of length len holding a single sample
Impulses(len) ==
    {[k \in 1..len |-> IF k = p THEN a ELSE Zero] : p \in 1..len, a \in Samples}

\* the scalars a and b
Scalars == {CInt(-2), ImagUnit}

\* the valid lengths up to MaxLen
ValidLengths == {n \in 2..MaxLen : ~LengthRejected(n)}

\* a*x + b*y, element by element
LinComb(a, x, b, y) ==
    [k \in 1..Len(x) |-> CAdd(CMul(a, x[k]), CMul(b, y[k]))]

LinInit ==
    /\ PlayIdle
    /\ data = <<>>
    /\ x0 = <<>>
    /\ calls = <<>>
    /\ CIdle
    /\ StepIdle
    /\ \E len \in ValidLengths :
         lin \in [pc : {"x"}, x : Impulses(len), y : Impulses(len),
                  a : Scalars, b : Scalars]

\* fx = x; ret = fft(fx)
LinFftX ==
    /\ lin.pc = "x"
    /\ lin' = [pc |-> "y", x |-> lin.x, y |-> lin.y, a |-> lin.a, b |-> lin.b,
               fx |-> fft(lin.x)]
    /\ UNCHANGED <<data, x0, calls, cn, cmem, ccalls, srt, lut, bufs, thr, ply, led>>

\* fy = y; ret = fft(fy)
LinFftY ==
    /\ lin.pc = "y"
    /\ lin' = [pc |-> "sum", x |-> lin.x, y |-> lin.y, a |-> lin.a, b |-> lin.b,
               fx |-> lin.fx, fy |-> fft(lin.y)]
    /\ UNCHANGED <<data, x0, calls, cn, cmem, ccalls, srt, lut, bufs, thr, ply, led>>

\* fs = a*x + b*y; ret = fft(fs)
LinFftSum ==
    /\ lin.pc = "sum"
    /\ lin' = [pc |-> "done", x |-> lin.x, y |-> lin.y, a |-> lin.a, b |-> lin.b,
               fx |-> lin.fx, fy |-> lin.fy,
               fs |-> fft(LinComb(lin.a, lin.x, lin.b, lin.y))]
    /\ UNCHANGED <<data, x0, calls, cn, cmem, ccalls, srt, lut, bufs, thr, ply, led>>

LinNext == LinFftX \/ LinFftY \/ LinFftSum

SpecLin == LinInit /\ [][LinNext]_vars

\* --------------------------------------------------------- fft.c: memory
\* A cell of an array holds a complex number or, when it was never written,
\* was written from bytes of two different values, or was computed from
\* such a cell or from a read past the end of the array, an indeterminate
\* value.
Indet == [n |-> <<>>, d |-> 0]

\* the values an indeterminate cell is seen to hold
Garbage == {Zero, One}

\* sizeof(double complex)
SizeofComplex == 16

\* x + y and x * y on cells
PAdd(x, y) == IF x = Indet \/ y = Indet THEN Indet ELSE CAdd(x, y)
PMul(x, y) == IF x = Indet \/ y = Indet THEN Indet ELSE CMul(x, y)

\* data[idx] as the C code reads it: past the end of the array the read is
\* undefined and what it yields is indeterminate
ReadCell(buf, idx) == IF idx < Len(buf) THEN buf[idx + 1] ELSE Indet

\* memcpy(dst, src, nbytes) on arrays of double complex: the cells that lie
\* wholly in the first nbytes bytes are copied; a cell only part of whose
\* bytes are copied keeps its value if both arrays hold the same there and
\* is indeterminate otherwise
memcpy(dst, src, nbytes) ==
    [k \in 1..Len(dst) |->
        IF k * SizeofComplex <= nbytes THEN src[k]
        ELSE IF (k - 1) * SizeofComplex < nbytes
        THEN (IF src[k] = dst[k] THEN dst[k] ELSE Indet)
        ELSE dst[k]]

\* ------------------------------------------------------ fft.c: do_fft
\* The state of a run of do_fft: the array, the indices read and written so
\* far, and whether the recursion has exhausted the stack.
RunStart(buf) == [buf |-> buf, reads |-> {}, writes |-> {}, overflow |-> FALSE]

RECURSIVE CombineLoop(_, _, _, _, _, _, _)
\* for (i = 0; i < n*stride; i += stride, mult *= w_n)
\*         data[i] = even[i*2] + mult*odd[i*2];
\* with even = data and odd = data + stride, data being base cells into the
\* array
CombineLoop(run, base, n, stride, i, mult, w_n) ==
    IF i >= n * stride THEN run
    ELSE Eval2(LAMBDA r, m : CombineLoop(r, base, n, stride, i + stride, m, w_n),
               [buf |-> [run.buf EXCEPT ![base + i + 1] =
                           PAdd(ReadCell(run.buf, base + 2 * i),
                                PMul(mult, ReadCell(run.buf, base + stride + 2 * i)))],
                reads |-> run.reads \cup {base + 2 * i, base + stride + 2 * i},
                writes |-> run.writes \cup {base + i},
                overflow |-> FALSE],
               CMul(mult, w_n))

RECURSIVE do_fft(_, _, _, _, _, _)
\* static void do_fft(double complex *data, size_t n, bool inv, size_t stride)
\* data points base cells into the array; depth counts the frames on the
\* stack
do_fft(run, base, n, inv, stride, depth) ==
    IF run.overflow THEN run
    ELSE IF depth > StackFrames THEN [run EXCEPT !.overflow = TRUE]
    ELSE IF n = 1 THEN run
    ELSE Eval(LAMBDA r1 :
           Eval(LAMBDA r2 :
                  IF r2.overflow THEN r2
                  ELSE CombineLoop(r2, base, n, stride, 0, One,
                                   RootOfUnity(n, ~inv)),
                do_fft(r1, base + stride, n \div 2, inv, stride * 2, depth + 1)),
           do_fft(run, base, n \div 2, inv, stride * 2, depth + 1))

\* ---------------------------------------------------- fft.c: fft_helper
NULL == "null"

\* !in || !out || (n & (n-1)) != 0; for n = 0 the unsigned n-1 is all ones
\* and the conjunction is 0
ArgsRejected(in, out, n) ==
    in = NULL \/ out = NULL \/ (IF n = 0 THEN 0 ELSE BitAnd(n, n - 1)) # 0

\* if (!inverse) for (i = 0; i < n; ++i) out[i] /= n
CScalePass(inverse, buf, n) ==
    IF inverse THEN buf
    ELSE [k \in 1..Len(buf) |->
            IF k <= n /\ buf[k] # Indet THEN CDiv(buf[k], n) ELSE buf[k]]

\* the arrays that agree with buf where it is determinate and hold a value
\* of Garbage in each of the first n cells where it is not
Settled(buf, n) ==
    {b \in [1..Len(buf) -> Garbage \cup {buf[k] : k \in 1..Len(buf)}] :
        \A k \in 1..Len(buf) :
            IF buf[k] = Indet /\ k <= n THEN b[k] \in Garbage ELSE b[k] = buf[k]}

\* static int fft_helper(in, out, n, inverse): every way the call can end.
\* An outcome says whether the call returned, its return value, whether
\* do_fft was entered, and the memory it leaves.  The call does not return
\* when do_fft exhausts the stack, and may not when do_fft reads past the
\* end of the array.
fft_helper(mem, in, out, n, inverse) ==
    IF ArgsRejected(in, out, n)
    THEN {[returned |-> TRUE, ret |-> EINVAL, entered |-> FALSE, mem |-> mem,
           reads |-> {}, writes |-> {}]}
    ELSE LET prepared == IF in # out THEN memcpy(mem[out], mem[in], n)
                         ELSE mem[out]
             run == do_fft(RunStart(prepared), 0, n, inverse, 1, 1)
             crash == [returned |-> FALSE, ret |-> 0, entered |-> TRUE,
                       mem |-> [mem EXCEPT ![out] = run.buf],
                       reads |-> run.reads, writes |-> run.writes]
             past == \E r \in run.reads : r >= Len(prepared)
         IN  (IF run.overflow \/ past THEN {crash} ELSE {})
             \cup
             (IF run.overflow THEN {}
              ELSE {[returned |-> TRUE, ret |-> 0, entered |-> TRUE,
                     mem |-> [mem EXCEPT ![out] = b],
                     reads |-> run.reads, writes |-> run.writes] :
                      b \in Settled(CScalePass(inverse, run.buf, n), n)})

\* ------------------------------------------------ fft_test.c: the caller
\* the arrays a caller fills: zeros, or one sample among zeros
CInputs(len) == Impulses(len) \cup {[k \in 1..len |-> Zero]}

\* the (in, out) arguments a caller passes
ArgPairs == {<<"in", "out">>, <<"out", "inv">>, <<"in", "in">>,
             <<NULL, "out">>, <<"in", NULL>>}

CInit ==
    /\ PlayIdle
    /\ data = <<>>
    /\ x0 = <<>>
    /\ calls = <<>>
    /\ lin = LinIdle
    /\ StepIdle
    /\ cn \in 0..CMaxLen
    /\ \E x \in CInputs(cn) :
         cmem = [in |-> x, out |-> [k \in 1..cn |-> Indet],
                 inv |-> [k \in 1..cn |-> Indet]]
    /\ ccalls = <<>>

\* the caller is still running: no call has failed to return
CRunning == \A c \in 1..Len(ccalls) : ccalls[c].returned

\* the ways a call with arguments args can end: the memory it leaves and
\* the record of the call
CallEnds(op, inverse, args) ==
    {[mem |-> o.mem,
      call |-> [op |-> op, in |-> args[1], out |-> args[2], n |-> cn,
                returned |-> o.returned, ret |-> o.ret,
                entered |-> o.entered, reads |-> o.reads,
                writes |-> o.writes, before |-> cmem]] :
       o \in fft_helper(cmem, args[1], args[2], cn, inverse)}

\* ret = fft(in, out, n)
CFft ==
    /\ Len(ccalls) < 2
    /\ CRunning
    /\ \E args \in ArgPairs : \E e \in CallEnds("fft", FALSE, args) :
         /\ cmem' = e.mem
         /\ ccalls' = Append(ccalls, e.call)
    /\ UNCHANGED <<data, x0, calls, lin, cn, srt, lut, bufs, thr, ply, led>>

\* ret = ifft(in, out, n)
CIfft ==
    /\ Len(ccalls) < 2
    /\ CRunning
    /\ \E args \in ArgPairs : \E e \in CallEnds("ifft", TRUE, args) :
         /\ cmem' = e.mem
         /\ ccalls' = Append(ccalls, e.call)
    /\ UNCHANGED <<data, x0, calls, lin, cn, srt, lut, bufs, thr, ply, led>>

CNext == CFft \/ CIfft

SpecC == CInit /\ [][CNext]_vars

\* ------------------------------------- fft.hpp: fft_impl one step at a time
\* Threads call fft/ifft, each on a vector of its own.  A thread's frame
\* holds the locals of fft_impl and bit_reverse_sort; a step is one
\* iteration of the reordering loop, the two reads of a butterfly, its two
\* writes, or one division of the scale pass.
Threads == {1, 2}

\* mutant: both threads handed the same vector
BufferOf_shared(t) == 1

\* the vector thread t hands to fft/ifft
BufferOf(t) == t

\* mutant: the loop counter not set before the loop
SortFirst_kept(i) == i

\* for (i = 1; ...) of bit_reverse_sort
SortFirst(i) == 1

\* mutant: the neighbouring element taken for the odd one
OddIndex_adjacent(i, grp_size) == i + 1

\* i+grp_size/2
OddIndex(i, grp_size) == i + grp_size \div 2

\* data.at(idx) does not throw
InRange(buf, idx) == idx < Len(buf)

\* one entry of a frame's trace: a swap of data[i] and data[j], the end of
\* the reordering loop, the reads (load) or the writes (store) of the
\* butterfly on data[i] and data[j], or the division of data[i]
Event(ev, f, i, j) ==
    [ev |-> ev, i |-> i, j |-> j, grp_size |-> f.grp_size, grp |-> f.grp,
     start |-> f.start, w |-> f.w_curr]

\* the frame of a thread that has made no call yet: the complex locals are
\* constructed at each call, the integer locals are not initialised and
\* hold what the stack held
Frame0(todo) ==
    [pc |-> "idle", todo |-> todo, forward |-> TRUE, n |-> 0, w_n |-> Zero,
     even |-> Zero, odd |-> Zero, w_curr |-> Zero, w_step |-> Zero,
     grp_size |-> 0, grp |-> 0, i |-> 0, start |-> 0,
     size |-> 0, order |-> 0, si |-> 0,
     before |-> <<>>, alone |-> [ret |-> 0, data |-> <<>>],
     trace |-> <<>>, hist |-> <<>>]

\* the call returns ret, or ends by the std::out_of_range data.at() throws
Finish(f, ret, thrown, buf) ==
    [f EXCEPT !.pc = "idle",
              !.hist = Append(@, [forward |-> f.forward, before |-> f.before,
                                  after |-> buf, ret |-> ret,
                                  thrown |-> thrown, alone |-> f.alone])]

\* mutant: grp_size < n for grp_size <= n
EnterStage_lt(f, buf) ==
    IF f.grp_size < f.n
    THEN [f EXCEPT !.pc = "load",
                   !.w_step = TwiddleStep(f.w_n, f.n, f.grp_size),
                   !.grp = 0, !.start = 0, !.w_curr = One, !.i = 0]
    ELSE IF f.forward THEN [f EXCEPT !.pc = "scale", !.i = 0]
    ELSE Finish(f, 0, FALSE, buf)

\* the head of the loop over grp_size with grp_size already set, and what
\* follows the loop
EnterStage(f, buf) ==
    IF f.grp_size <= f.n
    THEN [f EXCEPT !.pc = "load",
                   !.w_step = TwiddleStep(f.w_n, f.n, f.grp_size),
                   !.grp = 0, !.start = 0, !.w_curr = One, !.i = 0]
    ELSE IF f.forward THEN [f EXCEPT !.pc = "scale", !.i = 0]
    ELSE Finish(f, 0, FALSE, buf)

\* ++grp and the head of the loop over grp
EnterGroup(f, buf) ==
    LET g == [f EXCEPT !.grp = @ + 1]
    IN  IF g.grp < g.n \div g.grp_size
        THEN [g EXCEPT !.pc = "load", !.start = g.grp * g.grp_size,
                       !.w_curr = One, !.i = g.grp * g.grp_size]
        ELSE EnterStage([g EXCEPT !.grp_size = @ * 2], buf)

\* ++i and the head of the loop over i
NextButterfly(f, buf) ==
    LET g == [f EXCEPT !.i = @ + 1]
    IN  IF g.i < g.start + g.grp_size \div 2 THEN [g EXCEPT !.pc = "load"]
        ELSE EnterGroup(g, buf)

\* the vectors a thread transforms: distinct integers, or two samples
Ramp(len) == [k \in 1..len |-> CInt(k)]
Spike(len) ==
    [k \in 1..len |-> IF k = 2 THEN ImagUnit
                      ELSE IF k = len THEN CNeg(One) ELSE Zero]

\* the calls a thread makes: the direction, the vector, and what the call
\* gives when nothing else runs
StepCalls ==
    {[forward |-> fw, input |-> x, alone |-> fft_impl(fw, x)] :
        fw \in BOOLEAN,
        x \in UNION {{Ramp(len), Spike(len)} : len \in 0..MaxLen}}

\* each thread is about to make one call
StepInit ==
    /\ PlayIdle
    /\ data = <<>>
    /\ x0 = <<>>
    /\ calls = <<>>
    /\ lin = LinIdle
    /\ CIdle
    /\ srt = <<>>
    /\ lut = bit_rev_lut
    /\ bufs = [b \in Threads |-> <<>>]
    /\ thr \in [Threads -> {Frame0(<<c>>) : c \in StepCalls}]

\* thread t fills its vector and calls fft or ifft: fft_impl is entered
ThreadCall(t) ==
    LET f == thr[t]
        c == Head(f.todo)
    IN  /\ f.pc = "idle"
        /\ f.todo # <<>>
        /\ bufs' = [bufs EXCEPT ![BufferOf(t)] = c.input]
        /\ thr' = [thr EXCEPT ![t] =
                     [f EXCEPT !.pc = "check", !.todo = Tail(@),
                               !.forward = c.forward, !.n = Len(c.input),
                               !.even = Zero, !.odd = Zero,
                               !.w_curr = Zero, !.w_step = Zero,
                               !.before = c.input, !.alone = c.alone,
                               !.trace = <<>>]]
        /\ UNCHANGED <<data, x0, calls, lin, cn, cmem, ccalls, srt, lut, ply, led>>

\* if ((n & (n-1)) != 0 || n < 2) return EINVAL; then bit_reverse_sort is
\* entered
ThreadCheck(t) ==
    LET f == thr[t]
        buf == bufs[BufferOf(t)]
    IN  /\ f.pc = "check"
        /\ thr' = [thr EXCEPT ![t] =
                     IF LengthRejected(f.n) THEN Finish(f, EINVAL, FALSE, buf)
                     ELSE [f EXCEPT !.pc = "sort",
                                    !.w_n = RootOfUnity(f.n, f.forward),
                                    !.size = Len(buf),
                                    !.order = Ffs(Len(buf)) - 1,
                                    !.si = SortFirst(@)]]
        /\ UNCHANGED <<data, x0, calls, lin, cn, cmem, ccalls, srt, lut, bufs, ply, led>>

\* one test of i < size in bit_reverse_sort and, when it holds, one
\* iteration; when it fails, the loop over grp_size is entered
ThreadSort(t) ==
    LET f == thr[t]
        b == BufferOf(t)
        buf == bufs[b]
        rev == ReverseWord(lut, f.si, f.order)
    IN  /\ f.pc = "sort"
        /\ IF f.si >= f.size
           THEN /\ thr' = [thr EXCEPT ![t] =
                             EnterStage([f EXCEPT !.grp_size = 2,
                                           !.trace = Append(@, Event("sorted", f, f.si, f.si))],
                                        buf)]
                /\ bufs' = bufs
           ELSE IF ~SwapNeeded(rev, f.si)
           THEN /\ thr' = [thr EXCEPT ![t] = [f EXCEPT !.si = @ + 1]]
                /\ bufs' = bufs
           ELSE IF InRange(buf, f.si) /\ InRange(buf, rev)
           THEN /\ thr' = [thr EXCEPT ![t] =
                             [f EXCEPT !.si = @ + 1,
                                       !.trace = Append(@, Event("swap", f, f.si, rev))]]
                /\ bufs' = [bufs EXCEPT ![b] = SwapAt(buf, f.si, rev)]
           ELSE /\ thr' = [thr EXCEPT ![t] = Finish(f, 0, TRUE, buf)]
                /\ bufs' = bufs
        /\ UNCHANGED <<data, x0, calls, lin, cn, cmem, ccalls, srt, lut, ply, led>>

\* even = data.at(i); odd = data.at(i+grp_size/2)
ThreadLoad(t) ==
    LET f == thr[t]
        buf == bufs[BufferOf(t)]
        hi == OddIndex(f.i, f.grp_size)
    IN  /\ f.pc = "load"
        /\ thr' = [thr EXCEPT ![t] =
                     IF InRange(buf, f.i) /\ InRange(buf, hi)
                     THEN [f EXCEPT !.pc = "store",
                                    !.even = buf[f.i + 1],
                                    !.odd = buf[hi + 1],
                                    !.trace = Append(@, Event("load", f, f.i, hi))]
                     ELSE Finish(f, 0, TRUE, buf)]
        /\ UNCHANGED <<data, x0, calls, lin, cn, cmem, ccalls, srt, lut, bufs, ply, led>>

\* data.at(i) = even + odd*w_curr; data.at(i+grp_size/2) = even - odd*w_curr;
\* w_curr *= w_step; then the loop heads that follow
ThreadStore(t) ==
    LET f == thr[t]
        b == BufferOf(t)
        buf == bufs[b]
        hi == OddIndex(f.i, f.grp_size)
        written == [buf EXCEPT ![f.i + 1] = ButterflyLo(f.even, f.odd, f.w_curr),
                               ![hi + 1] = ButterflyHi(f.even, f.odd, f.w_curr)]
    IN  /\ f.pc = "store"
        /\ IF InRange(buf, f.i) /\ InRange(buf, hi)
           THEN /\ bufs' = [bufs EXCEPT ![b] = written]
                /\ thr' = [thr EXCEPT ![t] =
                             NextButterfly(
                               [f EXCEPT !.w_curr = CMul(f.w_curr, f.w_step),
                                         !.trace = Append(@, Event("store", f, f.i, hi))],
                               written)]
           ELSE /\ bufs' = bufs
                /\ thr' = [thr EXCEPT ![t] = Finish(f, 0, TRUE, buf)]
        /\ UNCHANGED <<data, x0, calls, lin, cn, cmem, ccalls, srt, lut, ply, led>>

\* data.at(i) /= n; ++i; after the last one, return 0
ThreadScale(t) ==
    LET f == thr[t]
        b == BufferOf(t)
        buf == bufs[b]
        scaled == [buf EXCEPT ![f.i + 1] = CDiv(@, f.n)]
        g == [f EXCEPT !.i = @ + 1,
                       !.trace = Append(@, Event("scale", f, f.i, f.i))]
    IN  /\ f.pc = "scale"
        /\ IF InRange(buf, f.i)
           THEN /\ bufs' = [bufs EXCEPT ![b] = scaled]
                /\ thr' = [thr EXCEPT ![t] =
                             IF g.i < g.n THEN g ELSE Finish(g, 0, FALSE, scaled)]
           ELSE /\ bufs' = bufs
                /\ thr' = [thr EXCEPT ![t] = Finish(f, 0, TRUE, buf)]
        /\ UNCHANGED <<data, x0, calls, lin, cn, cmem, ccalls, srt, lut, ply, led>>

StepCall == \E t \in Threads : ThreadCall(t)
StepCheck == \E t \in Threads : ThreadCheck(t)
StepSort == \E t \in Threads : ThreadSort(t)
StepLoad == \E t \in Threads : ThreadLoad(t)
StepStore == \E t \in Threads : ThreadStore(t)
StepScale == \E t \in Threads : ThreadScale(t)

StepNext ==
    StepCall \/ StepCheck \/ StepSort \/ StepLoad \/ StepStore \/ StepScale

\* two threads, each making one call, their steps interleaved in any order
SpecStep == StepInit /\ [][StepNext]_vars

\* one thread making three calls one after the other: a call, any other
\* call, and the first call again
SeqInit ==
    /\ PlayIdle
    /\ data = <<>>
    /\ x0 = <<>>
    /\ calls = <<>>
    /\ lin = LinIdle
    /\ CIdle
    /\ srt = <<>>
    /\ lut = bit_rev_lut
    /\ bufs = [b \in Threads |-> <<>>]
    /\ \E a \in StepCalls, b \in StepCalls :
         thr = [t \in Threads |->
                  IF t = 1 THEN Frame0(<<a, b, a>>) ELSE Frame0(<<>>)]

SpecSeq == SeqInit /\ [][StepNext]_vars

\* one thread making one call
SoloInit ==
    /\ PlayIdle
    /\ data = <<>>
    /\ x0 = <<>>
    /\ calls = <<>>
    /\ lin = LinIdle
    /\ CIdle
    /\ srt = <<>>
    /\ lut = bit_rev_lut
    /\ bufs = [b \in Threads |-> <<>>]
    /\ \E a \in StepCalls :
         thr = [t \in Threads |-> IF t = 1 THEN Frame0(<<a>>) ELSE Frame0(<<>>)]

\* the thread is never suspended: a call in progress takes its next step
SpecSoloFair == SoloInit /\ [][StepNext]_vars /\ WF_vars(StepNext)

\* ------------------------------------------- bit_reverse_sort on its own
\* Longest vector handed to bit_reverse_sort directly: 2^SortMaxOrder
SortMaxOrder == 5

\* bit q of word; model words stay below 2^31
Bit(word, q) == IF q >= 31 THEN 0 ELSE (word \div Pow2(q)) % 2

\* util.hpp's bit_reverse(size_t word): the WordBits bits of word in
\* reverse order, given as the bit at each position 0..WordBits-1 (the value
\* itself does not fit a model integer)
bit_reverse(word) == [p \in 0..(WordBits - 1) |-> Bit(word, WordBits - 1 - p)]

\* rev >>= s on a word given by its bits
ShiftRightBits(bits, s) ==
    SumTo([q \in 1..(WordBits - s) |-> bits[s + q - 1] * Pow2(q - 1)],
          WordBits - s)

\* rev as the two variants of bit_reverse_sort compute it:
\* bit_reverse_word(i, order), or bit_reverse(i) >> (8*sizeof rev - order)
ReversedIndex(variant, i, order) ==
    IF variant = "lut" THEN bit_reverse_word(i, order)
    ELSE ShiftRightBits(bit_reverse(i), WordBits - order)

\* the frame of a caller about to call bit_reverse_sort(v), twice in a row
SortFrame(variant, v) ==
    [pc |-> "call", variant |-> variant, v0 |-> v, v |-> v,
     size |-> 0, order |-> 0, i |-> 0, pass |-> 1,
     swaps |-> <<>>, once |-> <<>>]

SortInit ==
    /\ PlayIdle
    /\ data = <<>>
    /\ x0 = <<>>
    /\ calls = <<>>
    /\ lin = LinIdle
    /\ CIdle
    /\ lut = <<>>
    /\ bufs = <<>>
    /\ thr = <<>>
    /\ srt \in {SortFrame(variant, Ramp(Pow2(k))) :
                  variant \in {"lut", "direct"}, k \in 1..SortMaxOrder}

\* bit_reverse_sort is entered: size, order, i = 1
SortEnter ==
    /\ srt.pc = "call"
    /\ srt' = [srt EXCEPT !.pc = "loop", !.size = Len(srt.v),
                          !.order = Ffs(Len(srt.v)) - 1,
                          !.i = SortFirst(@), !.swaps = <<>>]
    /\ UNCHANGED <<data, x0, calls, lin, cn, cmem, ccalls, lut, bufs, thr, ply, led>>

\* one test of i < size and, when it holds, one iteration of the loop; when
\* it fails the call returns
SortIter ==
    /\ srt.pc = "loop"
    /\ LET rev == ReversedIndex(srt.variant, srt.i, srt.order)
       IN  srt' =
             IF srt.i >= srt.size
             THEN (IF srt.pass = 1
                   THEN [srt EXCEPT !.pc = "call", !.pass = 2, !.once = srt.v]
                   ELSE [srt EXCEPT !.pc = "done"])
             ELSE IF ~SwapNeeded(rev, srt.i) THEN [srt EXCEPT !.i = @ + 1]
             ELSE IF InRange(srt.v, srt.i) /\ InRange(srt.v, rev)
             THEN [srt EXCEPT !.i = @ + 1,
                              !.v = SwapAt(@, srt.i, rev),
                              !.swaps = Append(@, <<srt.i, rev>>)]
             ELSE [srt EXCEPT !.pc = "thrown"]
    /\ UNCHANGED <<data, x0, calls, lin, cn, cmem, ccalls, lut, bufs, thr, ply, led>>

SortNext == SortEnter \/ SortIter

SpecSort == SortInit /\ [][SortNext]_vars

\* ------------------------------------------------------------ reference
\* n is a power of two and at least 2
ValidLength(n) == \E k \in 1..MaxLen : n = Pow2(k)

\* sum over j of x[j] * exp(sign*2*pi*i*j*k/n), indices from 0
RefDFT(x, k, sign) ==
    CSum([j \in 1..Len(x) |->
            CMul(x[j], Zeta(sign * (j - 1) * k * (RootN \div Len(x))))],
         Len(x))

\* the buffer call number c left behind
After(c) == IF c = Len(calls) THEN data ELSE calls[c + 1].before

NonZero(x) == \E k \in 1..Len(x) : x[k] # Zero

\* ------------------------------------------------------- claims, C++ fft
\* C1: for every buffer x whose length is a power of two >= 2, fft(x)
\* followed by ifft on the result returns 0 both times and leaves every
\* element equal to the original.
C1_RoundTrip ==
    (/\ Len(calls) = 2
     /\ calls[1].op = "fft"
     /\ calls[2].op = "ifft"
     /\ ValidLength(Len(x0)))
    => /\ calls[1].ret = 0
       /\ calls[2].ret = 0
       /\ data = x0

C1_Witness ==
    /\ Len(calls) = 2
    /\ calls[1].op = "fft"
    /\ calls[2].op = "ifft"
    /\ Len(x0) = RootN
    /\ NonZero(x0)
    /\ calls[2].before # x0
    /\ data = x0

\* C2: for every valid input x of length n, fft leaves in position k the
\* value (1/n) * sum_j x[j]*exp(-2*pi*i*j*k/n): the DFT in natural order,
\* scaled by 1/n.
C2_ForwardIsScaledDFT ==
    \A c \in 1..Len(calls) :
        (calls[c].op = "fft" /\ ValidLength(Len(calls[c].before)))
        => After(c) = [k \in 1..Len(calls[c].before) |->
                         CDiv(RefDFT(calls[c].before, k - 1, -1),
                              Len(calls[c].before))]

C2_Witness ==
    /\ Len(calls) = 2
    /\ calls[2].op = "fft"
    /\ Len(data) = RootN
    /\ \A k \in 1..Len(data) : calls[2].before[k] # Zero
    /\ data # calls[2].before
    /\ data[2] = CDiv(RefDFT(calls[2].before, 1, -1), RootN)

\* C3: for every valid input x of length n, ifft leaves in position k the
\* value sum_j x[j]*exp(+2*pi*i*j*k/n) with no 1/n scaling: the division by
\* n is applied to every element once on a forward call (C2) and to none on
\* an inverse call.
C3_InverseIsUnscaledDFT ==
    \A c \in 1..Len(calls) :
        (calls[c].op = "ifft" /\ ValidLength(Len(calls[c].before)))
        => After(c) = [k \in 1..Len(calls[c].before) |->
                         RefDFT(calls[c].before, k - 1, 1)]

C3_Witness ==
    /\ Len(calls) = 2
    /\ calls[2].op = "ifft"
    /\ Len(data) = RootN
    /\ \A k \in 1..Len(data) : calls[2].before[k] # Zero
    /\ data[1] = RefDFT(calls[2].before, 0, 1)
    /\ data[1] # Zero

\* C4: for every buffer whose length is not a power of two or is less than
\* 2, fft and ifft return EINVAL and leave every element unchanged; length
\* 1 is rejected, not treated as the identity transform.
C4_InvalidLengthRejected ==
    \A c \in 1..Len(calls) :
        ~ValidLength(Len(calls[c].before))
        => /\ calls[c].ret = EINVAL
           /\ After(c) = calls[c].before

C4_Witness ==
    /\ Len(calls) = 2
    /\ calls[1].op = "fft"
    /\ calls[2].op = "ifft"
    /\ Len(x0) = 1
    /\ NonZero(x0)
    /\ calls[1].ret = EINVAL
    /\ calls[2].ret = EINVAL
    /\ data = x0

\* C8: the forward transform of the length-4 input [1, 0, -1, 0] is exactly
\* [0, 0.5, 0, 0.5] with zero imaginary parts, in that index order.
C8_KnownCase ==
    (/\ Len(calls) >= 1
     /\ calls[1].op = "fft"
     /\ x0 = <<One, Zero, CNeg(One), Zero>>)
    => After(1) = <<Zero, CDiv(One, 2), Zero, CDiv(One, 2)>>

C8_Witness ==
    /\ Len(calls) = 1
    /\ calls[1].op = "fft"
    /\ calls[1].ret = 0
    /\ x0 = <<One, Zero, CNeg(One), Zero>>
    /\ data = <<Zero, CDiv(One, 2), Zero, CDiv(One, 2)>>

\* C9: for every buffer whose length is a power of two >= 2, fft and ifft
\* return 0; the return value is always 0 or EINVAL; and the buffer has the
\* same length after the call as before.
C9_ReturnCodes ==
    \A c \in 1..Len(calls) :
        /\ ValidLength(Len(calls[c].before)) => calls[c].ret = 0
        /\ calls[c].ret \in {0, EINVAL}
        /\ Len(After(c)) = Len(calls[c].before)

C9_Witness ==
    /\ Len(calls) = 2
    /\ calls[1].ret = 0
    /\ calls[2].ret = 0
    /\ Len(x0) = 2
    /\ Len(data) = 2
    /\ data # x0

\* C10: linearity of the forward transform: for all scalars a, b and all
\* valid sequences x, y of equal length, fft(a*x + b*y) equals
\* a*fft(x) + b*fft(y) element by element, the 1/n factor on both sides.
C10_Linearity ==
    lin.pc = "done"
    => /\ lin.fx.ret = 0
       /\ lin.fy.ret = 0
       /\ lin.fs.ret = 0
       /\ lin.fs.data = LinComb(lin.a, lin.fx.data, lin.b, lin.fy.data)

C10_Witness ==
    /\ lin.pc = "done"
    /\ Len(lin.x) = RootN
    /\ lin.x # lin.y
    /\ lin.a = CInt(-2)
    /\ lin.b = ImagUnit
    /\ lin.fs.ret = 0
    /\ NonZero(lin.fs.data)
    /\ lin.fs.data # lin.fx.data
    /\ lin.fs.data = LinComb(lin.a, lin.fx.data, lin.b, lin.fy.data)

\* the buffer of length len holding zeros
AllZero(len) == [k \in 1..len |-> Zero]

\* C11: transforming an all-zero sequence of any valid power-of-two length,
\* with fft or with ifft, returns 0 and leaves an all-zero sequence.
C11_ZeroFixedPoint ==
    \A c \in 1..Len(calls) :
        (/\ ValidLength(Len(calls[c].before))
         /\ calls[c].before = AllZero(Len(calls[c].before)))
        => /\ calls[c].ret = 0
           /\ After(c) = AllZero(Len(calls[c].before))

C11_Witness ==
    /\ Len(calls) = 2
    /\ calls[1].op = "fft"
    /\ calls[2].op = "ifft"
    /\ x0 = AllZero(RootN)
    /\ calls[1].ret = 0
    /\ calls[2].before = AllZero(RootN)
    /\ calls[2].ret = 0
    /\ data = AllZero(RootN)

\* ------------------------------------------- claims, fft.hpp step by step
\* C12: the result of fft/ifft depends only on the buffer contents and the
\* direction: two calls on equal inputs yield equal outputs and equal
\* return codes whatever transform (of any size or direction, valid or
\* rejected) ran in between; no twiddle factor, loop counter or table entry
\* left by one call reaches the next.
C12_Stateless ==
    /\ lut = bit_rev_lut
    /\ \A t \in Threads : \A c \in 1..Len(thr[t].hist) :
         \A d \in 1..Len(thr[t].hist) :
           (/\ thr[t].hist[c].forward = thr[t].hist[d].forward
            /\ thr[t].hist[c].before = thr[t].hist[d].before)
           => /\ thr[t].hist[c].after = thr[t].hist[d].after
              /\ thr[t].hist[c].ret = thr[t].hist[d].ret
              /\ thr[t].hist[c].thrown = thr[t].hist[d].thrown

C12_Witness ==
    /\ Len(thr[1].hist) = 3
    /\ thr[1].hist[1].forward
    /\ thr[1].hist[1].before = Ramp(RootN)
    /\ thr[1].hist[1].ret = 0
    /\ thr[1].hist[1].after # Ramp(RootN)
    /\ ~thr[1].hist[2].forward
    /\ thr[1].hist[2].before = Spike(RootN \div 2)
    /\ thr[1].hist[2].ret = 0
    /\ thr[1].hist[3].forward
    /\ thr[1].hist[3].before = Ramp(RootN)
    /\ thr[1].hist[3].after = thr[1].hist[1].after
    /\ thr[1].hist[3].ret = 0
    /\ thr[1].si # 0
    /\ thr[1].i # 0

\* C13: two transforms running concurrently on disjoint buffers, their
\* bit-reversal swaps and butterfly steps interleaved in any order, each
\* finish with the same buffer contents and return code as when run alone;
\* the lookup table, the only data they share, is never written.
C13_ConcurrentAsAlone ==
    /\ lut = bit_rev_lut
    /\ \A t \in Threads : \A c \in 1..Len(thr[t].hist) :
         /\ ~thr[t].hist[c].thrown
         /\ thr[t].hist[c].ret = thr[t].hist[c].alone.ret
         /\ thr[t].hist[c].after = thr[t].hist[c].alone.data
         /\ bufs[BufferOf(t)] = thr[t].hist[c].after

C13_Witness ==
    /\ \A t \in Threads :
         /\ thr[t].pc = "idle"
         /\ Len(thr[t].hist) = 1
         /\ Len(thr[t].hist[1].before) = RootN
         /\ thr[t].hist[1].ret = 0
         /\ thr[t].hist[1].after # thr[t].hist[1].before
         /\ thr[t].hist[1].after = thr[t].hist[1].alone.data
    /\ thr[1].hist[1].forward
    /\ ~thr[2].hist[1].forward
    /\ thr[1].hist[1].before = Ramp(RootN)
    /\ thr[2].hist[1].before = Spike(RootN)

\* the positions an event touches
Touched(e) == {e.i, e.j}

\* the events ev of thread t's trace, in order
EventsOf(t, ev) == SelectSeq(thr[t].trace, LAMBDA e : e.ev = ev)

\* A trace grows by one event at a time and every earlier trace is the trace
\* of an earlier state, so a property of all pairs of events is stated of
\* the newest event and each earlier one.
\* The newest event of thread t's trace, a butterfly's reads or writes,
\* touches i and i + grp_size/2, both in [0,n); writes directly follow the
\* reads of the same two positions; no earlier butterfly of the stage
\* touches either position.
ButterflyInPlace(t) ==
    LET tr == thr[t].trace
        e == tr[Len(tr)]
    IN  (Len(tr) > 0 /\ e.ev \in {"load", "store"})
        => /\ e.j = e.i + e.grp_size \div 2
           /\ e.i \in 0..(thr[t].n - 1)
           /\ e.j \in 0..(thr[t].n - 1)
           /\ e.ev = "store"
              => /\ tr[Len(tr) - 1].ev = "load"
                 /\ Touched(tr[Len(tr) - 1]) = Touched(e)
                 /\ tr[Len(tr) - 1].grp_size = e.grp_size
           /\ e.ev = "load"
              => /\ tr[Len(tr) - 1].ev \in {"sorted", "store"}
                 /\ \A p \in 1..(Len(tr) - 1) :
                      (tr[p].ev \in {"load", "store"}
                       /\ tr[p].grp_size = e.grp_size)
                      => Touched(tr[p]) \cap Touched(e) = {}

\* once a stage has made n/2 butterflies, every index of [0,n) has been
\* written by one of them
StageCovers(t) ==
    \A g \in {e.grp_size : e \in {thr[t].trace[p] : p \in 1..Len(thr[t].trace)}} :
        LET stores == {p \in 1..Len(thr[t].trace) :
                         /\ thr[t].trace[p].ev = "store"
                         /\ thr[t].trace[p].grp_size = g}
        IN  (g > 0 /\ Cardinality(stores) = thr[t].n \div 2)
            => UNION {Touched(thr[t].trace[p]) : p \in stores}
                 = 0..(thr[t].n - 1)

\* a step of a butterfly changes nothing in the vector but the two
\* positions, and nothing at all while it reads
ButterflyWrites ==
    \A t \in Threads :
        /\ (thr[t].pc = "load" /\ thr'[t] # thr[t])
           => bufs'[BufferOf(t)] = bufs[BufferOf(t)]
        /\ (thr[t].pc = "store" /\ thr'[t] # thr[t])
           => /\ Len(bufs'[BufferOf(t)]) = Len(bufs[BufferOf(t)])
              /\ \A k \in 1..Len(bufs[BufferOf(t)]) :
                   bufs'[BufferOf(t)][k] # bufs[BufferOf(t)][k]
                   => k \in {thr[t].i + 1, thr[t].i + thr[t].grp_size \div 2 + 1}

\* C17: every butterfly of the iterative transform reads exactly the two
\* positions i and i + grp_size/2 (both in [0,n)) before writing either of
\* them and writes exactly those two; within one stage every index of
\* [0,n) belongs to exactly one butterfly, so no position is read after a
\* different butterfly of the same stage has overwritten it; the vector is
\* the only storage the butterflies write.
C17_ButterflyInPlace ==
    /\ [](\A t \in Threads : ButterflyInPlace(t) /\ StageCovers(t))
    /\ [][ButterflyWrites]_vars

C17_Witness ==
    /\ thr[1].pc = "idle"
    /\ Len(thr[1].hist) = 1
    /\ thr[1].n = RootN
    /\ thr[1].hist[1].ret = 0
    /\ Len(EventsOf(1, "store")) = (RootN \div 2) * (Ffs(RootN) - 1)
    /\ EventsOf(1, "load")[(RootN \div 2) * (Ffs(RootN) - 1)].grp_size = RootN
    /\ EventsOf(1, "load")[(RootN \div 2) * (Ffs(RootN) - 1)].i = Half - 1
    /\ EventsOf(1, "load")[(RootN \div 2) * (Ffs(RootN) - 1)].j = RootN - 1
    /\ thr[2].pc = "store"
    /\ thr[2].grp_size = 4
    /\ thr[2].i = 1

\* -1 for fft, +1 for ifft
TwiddleSign(t) == IF thr[t].forward THEN -1 ELSE 1

\* exp(TwiddleSign*2*pi*i*e/n) for thread t's n
RefTwiddle(t, e) == Zeta(TwiddleSign(t) * (RootN \div thr[t].n) * e)

\* the butterfly event at place p of thread t's trace uses the root
\* w_n^(k*n/grp_size), k its offset in the group; the exponent is below
\* n/2; the first butterfly of a group uses 1 and each later one the
\* previous root times w_n^(n/grp_size)
TwiddleOfEvent(t, p) ==
    LET e == thr[t].trace[p]
        k == e.i - e.start
        n == thr[t].n
    IN  /\ k \in 0..(e.grp_size \div 2 - 1)
        /\ k * (n \div e.grp_size) < n \div 2
        /\ e.w = RefTwiddle(t, k * (n \div e.grp_size))
        /\ k = 0 => e.w = One
        /\ (k > 0 /\ e.ev = "load")
           => /\ thr[t].trace[p - 2].ev = "load"
              /\ thr[t].trace[p - 2].i = e.i - 1
              /\ e.w = CMul(thr[t].trace[p - 2].w,
                            RefTwiddle(t, n \div e.grp_size))

\* C19: in every group of every stage, w_curr is 1 at the group's first
\* butterfly and is multiplied by w_step = w_n^(n/grp_size) after each
\* butterfly, so the butterfly at offset k in a group (0 <= k < grp_size/2)
\* uses the root w_n^(k*n/grp_size), whose exponent is always below n/2;
\* w_n is exp(-2*pi*i/n) for fft and exp(+2*pi*i/n) for ifft.
C19_TwiddleRecurrence ==
    \A t \in Threads :
        /\ thr[t].pc \in {"sort", "load", "store", "scale"}
           => thr[t].w_n = RefTwiddle(t, 1)
        /\ thr[t].pc \in {"load", "store"}
           => /\ thr[t].w_step = RefTwiddle(t, thr[t].n \div thr[t].grp_size)
              /\ thr[t].w_curr =
                   RefTwiddle(t, (thr[t].i - thr[t].start)
                                 * (thr[t].n \div thr[t].grp_size))
              /\ thr[t].i = thr[t].start => thr[t].w_curr = One
        /\ \A p \in 1..Len(thr[t].trace) :
             thr[t].trace[p].ev \in {"load", "store"} => TwiddleOfEvent(t, p)

C19_Witness ==
    /\ thr[1].pc = "store"
    /\ thr[1].forward
    /\ thr[1].n = RootN
    /\ thr[1].grp_size = RootN
    /\ thr[1].i = thr[1].start + Half - 1
    /\ thr[1].w_curr = Zeta(-(Half - 1))
    /\ thr[1].w_step = Zeta(-1)
    /\ thr[2].pc = "load"
    /\ ~thr[2].forward
    /\ thr[2].n = 4
    /\ thr[2].grp_size = 4
    /\ thr[2].i = 1
    /\ thr[2].w_curr = ImagUnit

RECURSIVE Log2(_)
\* log2(n) for a power of two n
Log2(n) == IF n < 2 THEN 0 ELSE 1 + Log2(n \div 2)

\* butterfly number j (from 0) of a transform of length n, n/2 to a stage:
\* the group size of its stage, its group, its offset in the group
RefGrpSize(n, j) == Pow2(j \div (n \div 2) + 1)
RefGrp(n, j) == (j % (n \div 2)) \div (RefGrpSize(n, j) \div 2)
RefOffset(n, j) == (j % (n \div 2)) % (RefGrpSize(n, j) \div 2)

\* the butterflies of thread t's call so far are the first ones of the
\* sequence: stages grp_size = 2, 4, ..., n, each of n/grp_size groups of
\* grp_size/2 butterflies
StagesInOrder(t) ==
    LET loads == EventsOf(t, "load")
        n == thr[t].n
    IN  /\ Len(loads) <= (n \div 2) * Log2(n)
        /\ \A j \in 1..Len(loads) :
             /\ loads[j].grp_size = RefGrpSize(n, j - 1)
             /\ loads[j].grp_size <= n
             /\ loads[j].grp = RefGrp(n, j - 1)
             /\ loads[j].start = loads[j].grp * loads[j].grp_size
             /\ loads[j].i = loads[j].start + RefOffset(n, j - 1)

\* the newest event of thread t's trace is in its place: swaps come first,
\* then the end of the reordering loop, with the buffer reordered, then
\* butterflies, then divisions
PhasesInOrder(t) ==
    LET tr == thr[t].trace
        e == tr[Len(tr)]
        earlier == {tr[p].ev : p \in 1..(Len(tr) - 1)}
    IN  Len(tr) > 0
        => /\ e.ev = "swap" => earlier \subseteq {"swap"}
           /\ e.ev = "sorted"
              => /\ earlier \subseteq {"swap"}
                 /\ thr[t].si = thr[t].n
                 /\ thr[t].pc = "load"
                    => bufs[BufferOf(t)] = bit_reverse_sort(thr[t].before)
           /\ e.ev \in {"load", "store"}
              => /\ "sorted" \in earlier
                 /\ "scale" \notin earlier
           /\ e.ev = "scale"
              => /\ thr[t].forward
                 /\ Len(EventsOf(t, "store"))
                      = (thr[t].n \div 2) * Log2(thr[t].n)

\* a call on a valid length that has returned made log2(n) stages of n/2
\* butterflies, then n divisions if forward, and returned 0
ReturnedAfterLastStage(t) ==
    (/\ thr[t].pc = "idle"
     /\ Len(thr[t].hist) > 0
     /\ ValidLength(thr[t].n))
    => /\ thr[t].hist[Len(thr[t].hist)].ret = 0
       /\ ~thr[t].hist[Len(thr[t].hist)].thrown
       /\ Len(EventsOf(t, "load")) = (thr[t].n \div 2) * Log2(thr[t].n)
       /\ Len(EventsOf(t, "store")) = (thr[t].n \div 2) * Log2(thr[t].n)
       /\ Len(EventsOf(t, "scale")) = IF thr[t].forward THEN thr[t].n ELSE 0
       /\ thr[t].trace[Len(thr[t].trace)].ev
            = IF thr[t].forward THEN "scale" ELSE "store"

\* C18: for every valid n the butterfly phase runs exactly log2(n) stages
\* with grp_size = 2, 4, ..., n in that order, each stage executing
\* n/grp_size groups of grp_size/2 butterflies (n/2 butterflies per stage);
\* it starts only after the bit-reversal pass has finished; and the call
\* always terminates, returning after the last stage (and the forward
\* divide-by-n pass).
C18_StagesAndTermination ==
    /\ [](\A t \in Threads :
            StagesInOrder(t) /\ PhasesInOrder(t) /\ ReturnedAfterLastStage(t))
    /\ \A t \in Threads : (thr[t].pc = "check") ~> (thr[t].pc = "idle")

C18_Witness ==
    /\ thr[1].pc = "idle"
    /\ Len(thr[1].hist) = 1
    /\ thr[1].n = RootN
    /\ thr[1].forward
    /\ thr[1].hist[1].ret = 0
    /\ Len(EventsOf(1, "load")) = Half * Log2(RootN)
    /\ EventsOf(1, "load")[1].grp_size = 2
    /\ EventsOf(1, "load")[Half + 1].grp_size = 4
    /\ EventsOf(1, "load")[Half * Log2(RootN)].grp_size = RootN
    /\ Len(EventsOf(1, "scale")) = RootN

\* ------------------------------------------------ claims, bit reversal
RECURSIVE RefReverse(_, _)
\* the k-bit reversal of i: bit q of i becomes bit k-1-q
RefReverse(i, k) ==
    IF k = 0 THEN 0 ELSE (i % 2) * Pow2(k - 1) + RefReverse(i \div 2, k - 1)

\* k for the vector of length 2^k the caller sorts
RefOrder == CHOOSE k \in 0..(SortMaxOrder + 1) : Pow2(k) = Len(srt.v0)

\* the number of swaps of data[i] with data[j] in the pass so far
SwapCount(i, j) ==
    Cardinality({s \in 1..Len(srt.swaps) :
                   {srt.swaps[s][1], srt.swaps[s][2]} = {i, j}})

\* the first pass is running or has just returned
FirstPass == srt.pass = 1 \/ srt.pc = "call"

\* the first pass has just returned
FirstPassOver == srt.pass = 2 /\ srt.pc = "call"

\* C14: after bit_reverse_sort on a buffer of length n = 2^k (k >= 1),
\* position i holds the element that was at the k-bit reversal rev(i) of i,
\* for every i in [0,n); every pair {i, rev(i)} with rev(i) # i is exchanged
\* exactly once and never swapped back (at no time more than once, and with
\* no other index); every index with rev(i) = i, 0 and n-1 among them,
\* keeps its element throughout.
C14_SortPlacesReversed ==
    (srt.variant = "lut" /\ FirstPass)
    => /\ RefReverse(0, RefOrder) = 0
       /\ RefReverse(Len(srt.v0) - 1, RefOrder) = Len(srt.v0) - 1
       /\ \A i \in 0..(Len(srt.v0) - 1) :
            /\ SwapCount(i, RefReverse(i, RefOrder)) <= 1
            /\ \A j \in 0..(Len(srt.v0) - 1) :
                 (j # RefReverse(i, RefOrder) /\ j # i) => SwapCount(i, j) = 0
            /\ RefReverse(i, RefOrder) = i => srt.v[i + 1] = srt.v0[i + 1]
            /\ FirstPassOver
               => /\ srt.once[i + 1] = srt.v0[RefReverse(i, RefOrder) + 1]
                  /\ RefReverse(i, RefOrder) # i
                     => SwapCount(i, RefReverse(i, RefOrder)) = 1

C14_Witness ==
    /\ srt.variant = "lut"
    /\ FirstPassOver
    /\ Len(srt.v0) = Pow2(SortMaxOrder)
    /\ srt.once # srt.v0
    /\ srt.once[2] = srt.v0[Pow2(SortMaxOrder - 1) + 1]
    /\ srt.once[Pow2(SortMaxOrder - 1) + 1] = srt.v0[2]
    /\ SwapCount(1, Pow2(SortMaxOrder - 1)) = 1
    /\ srt.once[Len(srt.v0)] = srt.v0[Len(srt.v0)]

\* C15: the index mapping bit_reverse_sort uses for length n = 2^k is a
\* permutation of [0,n) that is its own inverse, rev(rev(i)) = i for every
\* i, so applying bit_reverse_sort twice to a buffer restores its original
\* order.
C15_SelfInverse ==
    srt.variant = "lut"
    => /\ \A i \in 0..(Len(srt.v0) - 1) :
            /\ bit_reverse_word(i, RefOrder) \in 0..(Len(srt.v0) - 1)
            /\ bit_reverse_word(bit_reverse_word(i, RefOrder), RefOrder) = i
       /\ {bit_reverse_word(i, RefOrder) : i \in 0..(Len(srt.v0) - 1)}
            = 0..(Len(srt.v0) - 1)
       /\ srt.pc # "thrown"
       /\ srt.pc = "done" => srt.v = srt.v0

C15_Witness ==
    /\ srt.variant = "lut"
    /\ srt.pc = "done"
    /\ Len(srt.v0) = Pow2(SortMaxOrder)
    /\ srt.once # srt.v0
    /\ srt.v = srt.v0
    /\ bit_reverse_word(3, SortMaxOrder) # 3
    /\ bit_reverse_word(bit_reverse_word(3, SortMaxOrder), SortMaxOrder) = 3

\* the words below 2^k the two reversals are compared on: for k = RefOrder
\* every word, for a wider k every word with bits only in its lowest and in
\* its highest RefOrder bits
ProbeWords(k) ==
    IF k = RefOrder THEN 0..(Pow2(k) - 1)
    ELSE {hi * Pow2(k - RefOrder) + lo :
            hi \in 0..(Pow2(RefOrder) - 1), lo \in {0, 1, Pow2(RefOrder) - 1}}

\* C16: the lookup-table bit reversal agrees with the direct computation:
\* each of the 256 entries bit_rev_lut[b] is the 8-bit reversal of b; for
\* an order k >= 1 and an index i < 2^k, bit_reverse_word(i, k) is the k-bit
\* reversal of i, and so is bit_reverse(i) shifted right by (word width - k),
\* the value the other fft.hpp variant computes; the two bit_reverse_sort
\* variants leave identical buffers.
C16_LutAgreesWithDirect ==
    /\ \A b \in 0..255 : bit_rev_lut[b + 1] = RefReverse(b, 8)
    /\ \A k \in {RefOrder, RefOrder + 8, RefOrder + 16} :
         \A i \in ProbeWords(k) :
           /\ bit_reverse_word(i, k) = RefReverse(i, k)
           /\ ShiftRightBits(bit_reverse(i), WordBits - k) = RefReverse(i, k)
    /\ (srt.variant = "direct" /\ srt.pass = 2)
       => srt.once = bit_reverse_sort(srt.v0)

C16_Witness ==
    /\ srt.variant = "direct"
    /\ FirstPassOver
    /\ Len(srt.v0) = Pow2(SortMaxOrder)
    /\ srt.once # srt.v0
    /\ srt.once = bit_reverse_sort(srt.v0)
    /\ bit_reverse_word(Pow2(SortMaxOrder + 15) + 1, SortMaxOrder + 16)
         = Pow2(SortMaxOrder + 15) + 1
    /\ ReversedIndex("direct", 1, SortMaxOrder) = Pow2(SortMaxOrder - 1)

\* ------------------------------------------------------ claims, C fft
\* n is a power of two (1 included)
IsPowerOfTwo(n) == \E k \in 0..CMaxLen : n = Pow2(k)

\* n is a power of two and at least 2
CValidLength(n) == \E k \in 1..CMaxLen : n = Pow2(k)

\* the memory call number c left behind
CAfter(c) == IF c = Len(ccalls) THEN cmem ELSE ccalls[c + 1].before

\* the complex conjugate
CConj(x) ==
    [n |-> [m \in 1..Half |-> IF m = 1 THEN x.n[1] ELSE -x.n[Half - m + 2]],
     d |-> x.d]

\* |x|^2
NormSq(x) == CMul(x, CConj(x))

\* the arrays an in-place call (out == in) can leave, given the array x
InPlaceResults(x, n, inverse) ==
    {o.mem["in"] :
       o \in {e \in fft_helper([in |-> x, out |-> x, inv |-> x],
                               "in", "in", n, inverse) : e.returned}}

\* C5: the C fft and ifft return EINVAL whenever n is not a power of two
\* (n = 0 included) or in or out is null, at once: no buffer is read or
\* written and do_fft is not entered.
C5_InvalidArgsRejected ==
    \A c \in 1..Len(ccalls) :
        (\/ ~IsPowerOfTwo(ccalls[c].n)
         \/ ccalls[c].in = NULL
         \/ ccalls[c].out = NULL)
        => /\ ccalls[c].returned
           /\ ccalls[c].ret = EINVAL
           /\ ~ccalls[c].entered
           /\ ccalls[c].reads = {}
           /\ ccalls[c].writes = {}
           /\ CAfter(c) = ccalls[c].before

\* C6: when in and out are distinct arrays of n elements (n a power of
\* two, here n >= 2), the C fft and ifft leave in unchanged and out holds
\* the n values the in-place call produces from the same input.
C6_DistinctBuffers ==
    \A c \in 1..Len(ccalls) :
        (/\ ccalls[c].in # NULL
         /\ ccalls[c].out # NULL
         /\ ccalls[c].in # ccalls[c].out
         /\ CValidLength(ccalls[c].n)
         /\ ccalls[c].returned)
        => /\ CAfter(c)[ccalls[c].in] = ccalls[c].before[ccalls[c].in]
           /\ CAfter(c)[ccalls[c].out] \in
                InPlaceResults(ccalls[c].before[ccalls[c].in], ccalls[c].n,
                               ccalls[c].op = "ifft")

\* C7: with three distinct arrays of a power-of-two length n (here
\* n >= 2), fft(in, out, n) followed by ifft(out, inv, n) both return 0
\* and |in[i]| equals |inv[i]| at every index i.
C7_CRoundTrip ==
    (/\ Len(ccalls) = 2
     /\ CValidLength(cn)
     /\ ccalls[1].op = "fft" /\ ccalls[1].in = "in" /\ ccalls[1].out = "out"
     /\ ccalls[2].op = "ifft" /\ ccalls[2].in = "out" /\ ccalls[2].out = "inv"
     /\ ccalls[1].returned
     /\ ccalls[2].returned)
    => /\ ccalls[1].ret = 0
       /\ ccalls[2].ret = 0
       /\ \A i \in 1..cn : NormSq(cmem["in"][i]) = NormSq(cmem["inv"][i])

\* C20: the recursive do_fft of fft.c, started on a buffer of n elements
\* with stride 1 (n a power of two, n >= 1), reads and writes only elements
\* at indices in [0, n), and the recursion reaches n == 1 and terminates:
\* the call returns.
C20_DoFftInBounds ==
    \A c \in 1..Len(ccalls) :
        (ccalls[c].entered /\ IsPowerOfTwo(ccalls[c].n))
        => /\ ccalls[c].reads \subseteq 0..(ccalls[c].n - 1)
           /\ ccalls[c].writes \subseteq 0..(ccalls[c].n - 1)
           /\ ccalls[c].returned

\* ------------------------------------------------------------ visualize.cpp
\* The player: play_song reads a song with wav_reader, makes one frame per
\* frame interval from the spectrum of the samples in that interval and
\* writes it out, while a child process plays the audio.

\* bits in the significand of a float (IEEE-754 single, hidden bit included)
FloatSigBits == 24

\* round to nearest, ties to even: the significand q with r of unit cut off
RoundEven(q, r, unit) ==
    IF 2 * r > unit \/ (2 * r = unit /\ q % 2 = 1) THEN q + 1 ELSE q

\* the float with significand sig in units of unit = 2^(e - 23); a
\* significand rounded up to 2^24 moves to the next exponent
FloatPack(e, unit, sig) ==
    IF sig = Pow2(FloatSigBits) THEN [exp |-> e + 1, val |-> sig * unit]
    ELSE [exp |-> e, val |-> sig * unit]

\* (float)v for 2^e <= v < 2^(e+1)
FloatAt(v, e) ==
    IF e < FloatSigBits THEN [exp |-> e, val |-> v]
    ELSE Eval(LAMBDA unit :
                 FloatPack(e, unit, RoundEven(v \div unit, v % unit, unit)),
              Pow2(e - (FloatSigBits - 1)))

\* (float)v of an integer v >= 1: v rounded to FloatSigBits significant
\* bits, ties to even.  exp is the unbiased exponent, val the value.
FloatOf(v) == Eval(LAMBDA e : FloatAt(v, e), Log2(v))

\* (t <= v) in place of (t < v)
PadShift_le(t, v) == IF t <= v THEN 1 ELSE 0

\* the shift count (t < v) of "return t << (t < v)"
PadShift(t, v) == IF t < v THEN 1 ELSE 0

\* static size_t next_power_of2_or_zero(size_t v): for v > 1 the exponent
\* field of (float)v gives t = 1U << exponent, and t is doubled when it is
\* below v.  (Sizes stay below 2^31 here; 1U << 32 is never evaluated.)
next_power_of2_or_zero(v) ==
    IF v > 1
    THEN LET t == Pow2(FloatOf(v).exp)
         IN  t * Pow2(PadShift(t, v))
    ELSE v

\* the builds of wav_reader::get_range
RangeBuilds == {"wav_reader.cpp", "part_001"}

\* float(fmt_chunk.dw_samples_per_sec) / 1000000 as a fraction in lowest
\* terms; the rates of the model are those whose quotient is a float
RECURSIVE Gcd(_, _)
Gcd(a, b) == IF b = 0 THEN a ELSE Gcd(b, a % b)
SamplesPerMicros(rate) ==
    Eval(LAMBDA g : [num |-> FloatOf(rate).val \div g, den |-> 1000000 \div g],
         Gcd(1000000, rate))

\* uint32_t(samples_per_micros * t.count()): the count becomes a float, the
\* product is rounded to a float and the conversion drops the fraction
SampleIndex(rate, micros) ==
    IF micros = 0 THEN 0
    ELSE Eval2(LAMBDA spm, t : FloatOf(spm.num * t).val \div spm.den,
               SamplesPerMicros(rate), FloatOf(micros).val)

\* the loop of get_range from index i on, acc the samples pushed so far.
\* wav_reader.cpp: for (i = start_index; i < start_index + range_length; i++)
\*                     if (i >= samples_.size()) return; push(samples_.at(i))
\* part_001:       for (i = start_index; i < range_length; i++)
\*                     if (start_index + i >= num_samples_) return;
\*                     push(samples_[start_index + i])
\* Indices are 0-based as in the source; reads collects the indices read.
RECURSIVE RangeLoop(_, _, _, _, _, _)
RangeLoop(build, samples, s, len, i, acc) ==
    LET limit == IF build = "wav_reader.cpp" THEN s + len ELSE len
        at == IF build = "wav_reader.cpp" THEN i ELSE s + i
    IN  IF i >= limit \/ at >= Len(samples) THEN acc
        ELSE Eval(LAMBDA a : RangeLoop(build, samples, s, len, i + 1, a),
                  [out |-> Append(acc.out, samples[at + 1]),
                   reads |-> acc.reads \cup {at}])

\* vector<float> wav_reader::get_range(microseconds start,
\*                                     microseconds duration) const
get_range_reads(build, samples, rate, start, duration) ==
    Eval2(LAMBDA s, len : RangeLoop(build, samples, s, len, s,
                                    [out |-> <<>>, reads |-> {}]),
          SampleIndex(rate, start), SampleIndex(rate, duration))

get_range(build, samples, rate, start, duration) ==
    get_range_reads(build, samples, rate, start, duration).out

\* the longest song played
SongLen == 6

\* frames written before the exploration of a run is given up
MaxFrames == 8

\* frame::WIDTH, frame::HEIGHT
WIDTH == 32
HEIGHT == 32

\* pixel(): the default pixel, red = green = blue = 0
Black == <<0, 0, 0>>

\* frame is std::array<pixel, 32*32>, default-constructed by "frame f;"
NewFrame == [k \in 1..(WIDTH * HEIGHT) |-> Black]

\* frame::at(x, y) is array::at(x*WIDTH + y); +1 for TLA+'s 1-based tuples
At(x, y) == x * WIDTH + y + 1

\* the builds of scrolling_fft_generator::make_next_frame
FrameBuilds == {"visualize.cpp", "part_008"}

\* the x the column loop starts from, before its first "x-- > 1":
\* visualize.cpp "for (x = frame::WIDTH; x-- > 1;)",
\* part_008      "for (x = frame::WIDTH - 1; x-- > 1;)"
ShiftFrom(build) == IF build = "visualize.cpp" THEN WIDTH ELSE WIDTH - 1

\* row y of the frame: frame.at(0, y), ..., frame.at(WIDTH-1, y)
RowOf(frame, y) == [x \in 1..WIDTH |-> frame[At(x - 1, y)]]

\* for (x = ...; x-- > 1;) frame.at(x, y) = frame.at(x-1, y);
\* on row y, x being the value the test "x-- > 1" sees
RECURSIVE ShiftRow(_, _)
ShiftRow(row, x) ==
    IF x > 1
    THEN Eval(LAMBDA r : ShiftRow(r, x - 1), [row EXCEPT ![x] = row[x - 1]])
    ELSE row

\* for (y = 0; y < frame::HEIGHT; ++y) { the column loop;
\*                                       frame.at(0, y) = new_col.at(y); }
\* Pass y reads and writes row y only, so the rows are shifted one by one
\* and put back where frame::at finds them.
ShiftRows(build, frame, new_col) ==
    Eval(LAMBDA rows : [k \in 1..(WIDTH * HEIGHT) |->
                           rows[((k - 1) % WIDTH) + 1][((k - 1) \div WIDTH) + 1]],
         [y \in 1..HEIGHT |->
             [ShiftRow(RowOf(frame, y - 1), ShiftFrom(build))
                 EXCEPT ![1] = new_col[y]]])

\* copy(sample.begin(), sample.end(), back_inserter(spec));
\* fill_n(back_inserter(spec), size - spec.size(), 0);
PadTo(sample, size) ==
    [k \in 1..Len(sample) |-> CInt(sample[k])]
        \o [k \in 1..(size - Len(sample)) |-> Zero]

\* return fft(spec) == 0; with what went in and what came out
Transformed(sample, spec) ==
    Eval(LAMBDA r : [ret |-> r.ret = 0, sample |-> sample, handed |-> spec],
         fft(spec))

\* bool scrolling_fft_generator::make_spectrum(song, start, spec):
\* the samples of the range become complex, zeros fill the vector up to
\* next_power_of2_or_zero(sample.size()) and fft transforms it in place
make_spectrum(samples, rate, interval, start) ==
    Eval(LAMBDA sample :
            Eval(LAMBDA spec : Transformed(sample, spec),
                 PadTo(sample, next_power_of2_or_zero(Len(sample)))),
         get_range("wav_reader.cpp", samples, rate, start, start + interval))

\* the rest of make_next_frame once make_spectrum returned s
FrameFrom(build, s, frame, new_col) ==
    IF ~s.ret THEN [ret |-> FALSE, frame |-> frame, spectrum |-> s]
    ELSE [ret |-> TRUE, frame |-> ShiftRows(build, frame, new_col),
          spectrum |-> s]

\* the offset stays at the first frame's
OffsetOf_stuck(frame_count, interval) == 0

\* next_start - start for next_start = start + frame_count*interval
OffsetOf(frame_count, interval) == frame_count * interval

\* the offsets play_song can ask a frame for
Offsets(interval) == {OffsetOf(k, interval) : k \in 0..MaxFrames}

\* make_spectrum(song, start, spec) of the song being played: the song
\* does not change, and what make_spectrum returns at each offset is
\* worked out once, when the song is read
SpectrumAt(p, start) == p.spectra[start]

\* bool scrolling_fft_generator::make_next_frame(song, start, frame), with
\* new_col the column pick_pixels returns
make_next_frame(p, start, new_col) ==
    FrameFrom(p.build, SpectrumAt(p, start), p.f, new_col)

\* the colours pick_pixels' rainbow() gives in the model
Colours == {<<254, 63, 63>>, <<63, 254, 63>>}

\* pick_pixels(spec): its bins double HEIGHT times from log2(spec.size())
\* elements, so it reads far past the end of spec; what it returns is any
\* column (here: one colour, or two colours alternating)
Columns ==
    {[y \in 1..HEIGHT |-> c] : c \in Colours}
        \cup {[y \in 1..HEIGHT |-> IF y % 2 = 1 THEN <<254, 63, 63>>
                                    ELSE <<63, 254, 63>>]}

\* get_frame_interval(): microseconds(1000*1000/get_frame_rate())
get_frame_interval(frame_rate) == 1000000 \div frame_rate

\* the songs: samples 1, 2, ..., n, so that no two samples are alike
Songs == {[k \in 1..n |-> k] : n \in 0..SongLen}

\* fmt_chunk.dw_samples_per_sec of the songs
Rates == {1000000, 500000}

\* the frame rates of the generators
FrameRates == {250000, 500000, 1000000, 2000000}

\* play_song(fname) just entered: song read, frame_count = 0, frame f
\* default-constructed, interval = get_frame_interval().
\* spectra holds make_spectrum's results; gen, spi, fid, prev and col are
\* history: the calls of make_next_frame
\* (k, the offset asked for, what it returned, the samples and the vector
\* handed to fft), the frames written (by the number of the call that made
\* them), the call that made f, f before the last call and the column the
\* last call picked.
Player0(build, samples, rate, frame_rate) ==
    [pc |-> "first", build |-> build, samples |-> samples, rate |-> rate,
     interval |-> get_frame_interval(frame_rate), frame_count |-> 0,
     offset |-> 0, f |-> NewFrame, pid |-> 0, child |-> "none",
     gen |-> <<>>, spi |-> <<>>, fid |-> -1, prev |-> NewFrame,
     col |-> <<>>,
     spectra |-> [start \in Offsets(get_frame_interval(frame_rate)) |->
                     make_spectrum(samples, rate,
                                   get_frame_interval(frame_rate), start)]]

PlayInit ==
    /\ data = <<>>
    /\ x0 = <<>>
    /\ calls = <<>>
    /\ lin = LinIdle
    /\ CIdle
    /\ StepIdle
    /\ led = <<>>
    /\ ply \in {Player0(b, s, r, fr) : b \in FrameBuilds, s \in Songs,
                                      r \in Rates, fr \in FrameRates}

\* p after make_next_frame(song, start, f) returned r, new_col the column
\* it picked
Generated(p, start, r, new_col) ==
    [p EXCEPT !.f = r.frame, !.prev = p.f,
              !.col = IF r.ret THEN new_col ELSE <<>>,
              !.fid = IF r.ret THEN Len(p.gen) ELSE p.fid,
              !.gen = Append(p.gen, [k |-> Len(p.gen), offset |-> start,
                                     ret |-> r.ret,
                                     sample |-> r.spectrum.sample,
                                     handed |-> r.spectrum.handed,
                                     forked |-> p.pid > 0])]

\* if (!make_next_frame(song, microseconds(0), f))
\*         throw runtime_error("failed to generate first frame");
FirstFrame ==
    /\ ply # <<>>
    /\ ply.pc = "first"
    /\ \E new_col \in Columns :
         ply' = Eval(LAMBDA r : [Generated(ply, 0, r, new_col) EXCEPT
                                    !.pc = IF r.ret THEN "fork" ELSE "thrown"],
                     make_next_frame(ply, 0, new_col))
    /\ UNCHANGED <<data, x0, calls, lin, cn, cmem, ccalls, srt, lut, bufs,
                   thr, led>>

\* pid = fork() gives the parent the child's pid; the child runs aplay
Fork ==
    /\ ply # <<>>
    /\ ply.pc = "fork"
    /\ ply' = [ply EXCEPT !.pc = "write", !.pid = 1, !.child = "playing"]
    /\ UNCHANGED <<data, x0, calls, lin, cn, cmem, ccalls, srt, lut, bufs,
                   thr, led>>

\* pid = fork() fails: if (pid < 0) throw runtime_error("fork failed");
ForkFails ==
    /\ ply # <<>>
    /\ ply.pc = "fork"
    /\ ply' = [ply EXCEPT !.pc = "thrown", !.pid = -1]
    /\ UNCHANGED <<data, x0, calls, lin, cn, cmem, ccalls, srt, lut, bufs,
                   thr, led>>

\* f.write(); next_start = start + ++frame_count*interval;
\* offset = duration_cast<microseconds>(next_start - start);
\* (MaxFrames ends the exploration of a loop that does not end by itself.)
WriteFrame ==
    /\ ply # <<>>
    /\ ply.pc = "write"
    /\ ply.frame_count < MaxFrames
    /\ ply' = [ply EXCEPT !.pc = "next",
                          !.spi = Append(ply.spi, [fid |-> ply.fid,
                                                   calls |-> Len(ply.gen)]),
                          !.frame_count = ply.frame_count + 1,
                          !.offset = OffsetOf(ply.frame_count + 1,
                                              ply.interval)]
    /\ UNCHANGED <<data, x0, calls, lin, cn, cmem, ccalls, srt, lut, bufs,
                   thr, led>>

\* if (!make_next_frame(song, offset, f)) break;
NextFrame ==
    /\ ply # <<>>
    /\ ply.pc = "next"
    /\ \E new_col \in Columns :
         ply' = Eval(LAMBDA r : [Generated(ply, ply.offset, r, new_col) EXCEPT
                                    !.pc = IF r.ret THEN "sleep" ELSE "wait"],
                     make_next_frame(ply, ply.offset, new_col))
    /\ UNCHANGED <<data, x0, calls, lin, cn, cmem, ccalls, srt, lut, bufs,
                   thr, led>>

\* pick_pixels reads past the end of spec and the process is killed for it
PickPixelsFault ==
    /\ ply # <<>>
    /\ ply.pc \in {"first", "next"}
    /\ SpectrumAt(ply, ply.offset).ret
    /\ ply' = [ply EXCEPT !.pc = "killed"]
    /\ UNCHANGED <<data, x0, calls, lin, cn, cmem, ccalls, srt, lut, bufs,
                   thr, led>>

\* the loop goes on to the next frame without writing this one
Sleep_unwritten ==
    /\ ply # <<>>
    /\ ply.pc = "sleep"
    /\ ply' = [ply EXCEPT !.pc = "next",
                          !.frame_count = ply.frame_count + 1,
                          !.offset = (ply.frame_count + 1) * ply.interval]
    /\ UNCHANGED <<data, x0, calls, lin, cn, cmem, ccalls, srt, lut, bufs,
                   thr, led>>

\* this_thread::sleep_until(next_start);
Sleep ==
    /\ ply # <<>>
    /\ ply.pc = "sleep"
    /\ ply' = [ply EXCEPT !.pc = "write"]
    /\ UNCHANGED <<data, x0, calls, lin, cn, cmem, ccalls, srt, lut, bufs,
                   thr, led>>

\* the child: system("aplay " + fname) returns and exit(0) ends it
ChildExit ==
    /\ ply # <<>>
    /\ ply.child = "playing"
    /\ ply' = [ply EXCEPT !.child = "exited"]
    /\ UNCHANGED <<data, x0, calls, lin, cn, cmem, ccalls, srt, lut, bufs,
                   thr, led>>

\* waitpid(pid, NULL, WEXITED) returns once the child has exited
WaitChild ==
    /\ ply # <<>>
    /\ ply.pc = "wait"
    /\ ply.child = "exited"
    /\ ply' = [ply EXCEPT !.pc = "done", !.child = "waited"]
    /\ UNCHANGED <<data, x0, calls, lin, cn, cmem, ccalls, srt, lut, bufs,
                   thr, led>>

\* a step of the parent
ParentNext ==
    \/ PickPixelsFault
    \/ Fork
    \/ ForkFails
    \/ WriteFrame
    \/ Sleep
    \/ WaitChild
    \/ FirstFrame
    \/ NextFrame

PlayNext == ChildExit \/ ParentNext

SpecPlay == PlayInit /\ [][PlayNext]_vars

\* the parent keeps running and aplay ends on a finite song: as long as
\* one of them can take a step, a step is taken
SpecPlayFair == PlayInit /\ [][PlayNext]_vars /\ WF_vars(PlayNext)

\* ------------------------------------------------------------ the player's claims
\* the powers of two a size_t below 2^31 can be
PowersOfTwo == {Pow2(k) : k \in 0..30}

\* the sizes next_power_of2_or_zero is probed with: the small ones, and
\* the neighbours of every power of two where the float is still exact
\* and where it is rounded
ProbeSizes ==
    (0..33) \cup {Pow2(k) + d : k \in 6..29, d \in {-1, 0, 1}}
            \cup {Pow2(30) - 1, Pow2(30)}

\* 0 for 0, v for a power of two, else the smallest power of two above v
RefPadded(v) ==
    IF v = 0 THEN 0
    ELSE IF v \in PowersOfTwo THEN v
    ELSE CHOOSE p \in PowersOfTwo :
            p > v /\ \A q \in PowersOfTwo : q > v => p <= q

PaddingRight == \A v \in ProbeSizes : next_power_of2_or_zero(v) = RefPadded(v)

\* the last call of make_next_frame
LastGen == ply.gen[Len(ply.gen)]

\* C21: next_power_of2_or_zero(v) is 0 for v = 0, v for a power of two and
\* otherwise the smallest power of two above v; the vector make_spectrum
\* hands to fft has that length for v = sample.size(), starts with the
\* samples in their order, imaginary parts zero, and is zero after them.
C21_PaddedSpectrum ==
    /\ PaddingRight
    /\ (ply # <<>> /\ ply.gen # <<>>) =>
          LET e == LastGen
          IN  /\ Len(e.handed) = RefPadded(Len(e.sample))
              /\ \A k \in 1..Len(e.handed) :
                    e.handed[k] = IF k <= Len(e.sample)
                                  THEN CInt(e.sample[k]) ELSE Zero

\* three samples were padded to four and transformed
C21_Witness ==
    /\ ply # <<>>
    /\ ply.gen # <<>>
    /\ Len(LastGen.sample) = 3
    /\ Len(LastGen.handed) = 4
    /\ LastGen.ret

\* the parent has a child: fork() returned its pid
Forked == ply.pid > 0

\* C22: the first frame is made before the child is forked, and when it
\* fails play_song throws and there is no child.  After the fork the j-th
\* write sends frame j-1, a frame whose generation succeeded, before call j
\* of make_next_frame is made; call k asks for offset k*interval; the loop
\* is back at make_next_frame only with every frame written, and the frame
\* whose generation failed is the last call's and is not among the writes.
C22_FramesWrittenInOrder ==
    ply # <<>> =>
        LET n == Len(ply.gen)
            w == Len(ply.spi)
        IN  /\ Forked => (n >= 1 /\ ply.gen[1].ret)
            /\ \A k \in 1..n :
                  /\ ply.gen[k].offset = (k - 1) * ply.interval
                  /\ ply.gen[k].forked = (k > 1)
                  /\ ~ply.gen[k].ret =>
                        /\ k = n
                        /\ w = n - 1
                        /\ ply.pc \in {"thrown", "wait", "done"}
                        /\ (k = 1 => (ply.pc = "thrown" /\ ply.pid = 0
                                        /\ ply.child = "none"))
            /\ \A j \in 1..w :
                  /\ ply.spi[j].fid = j - 1
                  /\ ply.spi[j].calls = j
                  /\ ply.gen[j].ret
            /\ w <= n
            /\ n <= w + 1
            /\ ply.pc = "next" => n = w
            /\ ply.pc = "sleep" => (n = w + 1 /\ ply.gen[n].ret)
            /\ ply.pc = "write" => (n = w + 1 /\ ply.gen[n].ret /\ Forked)
            /\ w > 0 => Forked

\* three frames were written, the fourth failed and the child was waited for
C22_Witness ==
    /\ ply # <<>>
    /\ ply.pc = "done"
    /\ Len(ply.spi) = 3
    /\ Len(ply.gen) = 4
    /\ ~ply.gen[4].ret

\* play_song has ended: returned, thrown, or the process was killed
PlayEnded == ply.pc \in {"done", "thrown", "killed"}

\* the loop was left because the range at the last offset held fewer than
\* two samples, which pad to 0 or 1, a length fft rejects
LoopLeftOnShortRange ==
    ply.pc \in {"wait", "done"} =>
        /\ ~LastGen.ret
        /\ Len(LastGen.sample) < 2
        /\ Len(LastGen.handed) = Len(LastGen.sample)
        /\ fft(LastGen.handed).ret = EINVAL
        /\ LastGen.offset = ply.frame_count * ply.interval
        /\ SampleIndex(ply.rate, LastGen.offset) >= Len(ply.samples) - 1

FrameCalls == 1

\* the frames handed over: a new one, and one whose pixels all differ
\* (red = x, green = y)
CallerFrames ==
    {NewFrame,
     [k \in 1..(WIDTH * HEIGHT) |-> <<(k - 1) \div WIDTH, (k - 1) % WIDTH, 0>>]}

FrameInit ==
    /\ data = <<>>
    /\ x0 = <<>>
    /\ calls = <<>>
    /\ lin = LinIdle
    /\ CIdle
    /\ StepIdle
    /\ led = <<>>
    /\ ply \in {[Player0(b, s, r, fr) EXCEPT !.pc = "call", !.f = fr0,
                                             !.prev = fr0] :
                  b \in FrameBuilds, s \in Songs, r \in Rates,
                  fr \in FrameRates, fr0 \in CallerFrames}

\* make_next_frame(song, start, frame) on the caller's frame
CallMakeNextFrame ==
    /\ ply # <<>>
    /\ ply.pc = "call"
    /\ Len(ply.gen) < FrameCalls
    /\ \E start \in DOMAIN ply.spectra, new_col \in Columns :
         ply' = Eval(LAMBDA r : Generated(ply, start, r, new_col),
                     make_next_frame(ply, start, new_col))
    /\ UNCHANGED <<data, x0, calls, lin, cn, cmem, ccalls, srt, lut, bufs,
                   thr, led>>

SpecFrame == FrameInit /\ [][CallMakeNextFrame]_vars

RangeTime == 8

RangeInit ==
    /\ data = <<>>
    /\ x0 = <<>>
    /\ calls = <<>>
    /\ lin = LinIdle
    /\ CIdle
    /\ StepIdle
    /\ led = <<>>
    /\ ply \in [pc : {"range"}, build : RangeBuilds, samples : Songs,
                rate : Rates, start : 0..RangeTime, duration : 0..RangeTime,
                out : {<<>>}, reads : {{}}]

\* out = song.get_range(start, duration)
CallGetRange ==
    /\ ply # <<>>
    /\ ply.pc = "range"
    /\ ply' = Eval(LAMBDA r : [ply EXCEPT !.pc = "returned", !.out = r.out,
                                          !.reads = r.reads],
                   get_range_reads(ply.build, ply.samples, ply.rate,
                                   ply.start, ply.duration))
    /\ UNCHANGED <<data, x0, calls, lin, cn, cmem, ccalls, srt, lut, bufs,
                   thr, led>>

SpecRange == RangeInit /\ [][CallGetRange]_vars

\* floor(rate * t) samples in t microseconds at rate samples per second
RefSamplesIn(rate, t) == (rate * t) \div 1000000

\* C25: get_range(start, duration) returns samples[s], samples[s+1], ...
\* up to but not including index min(s + len, number of samples), for
\* s = floor(rate*start) and len = floor(rate*duration); nothing when s is
\* at or past the end; and it reads no index outside the sample array.
C25_RangeIsTheSamples ==
    (ply # <<>> /\ ply.pc = "returned") =>
        LET s == RefSamplesIn(ply.rate, ply.start)
            len == RefSamplesIn(ply.rate, ply.duration)
            n == Len(ply.samples)
            end == IF s + len < n THEN s + len ELSE n
        IN  /\ ply.out = [k \in 1..(IF end > s THEN end - s ELSE 0) |->
                             ply.samples[s + k]]
            /\ ply.reads \subseteq 0..(n - 1)

\* ----------------------------------------------------------- ledDriver2
\* The controller and the frame_writer of ledDriver2.sv, on one clock and
\* one synchronous reset.  The frame_reader is its rdone output, an input
\* that may be raised at any clock edge.

\* width of the matrix clock divider (the module parameter)
MCLK_DIV_BITS == 2

\* widths of raddr and waddr, col, row and latch_count
AddrBits == 10
ColBits == 5
RowBits == 4
LatchBits == 6

\* '1 of a register of the given width
AllOnes(bits) == Pow2(bits) - 1

\* reg + 1'b1 in a register of the given width
Incr(reg, bits) == (reg + 1) % Pow2(bits)

\* controller: the combinational outputs
fstart(l) == l.state = "NEW_FRAME"
cdone(l) == l.waddr = AllOnes(AddrBits)
we(l) == l.state = "COPY" \/ l.state = "RESET"

\* frame_writer: the combinational outputs
fend(l) == l.wstate = "DONE"
latch(l) == l.wstate = "LATCH"

\* the address and write enables of the two rams of the display buffer
addr(l) ==
    IF l.wstate = "WAIT" THEN l.waddr % Pow2(AddrBits - 1)
    ELSE l.row * Pow2(ColBits) + l.col
lo_we(l) == we(l) /\ l.waddr < Pow2(AddrBits - 1)
hi_we(l) == we(l) /\ l.waddr >= Pow2(AddrBits - 1)

\* the controller's next state, with a copy started as soon as a frame has
\* been read
CtlNextState_nofend(l) ==
    CASE l.state = "WRITE" -> IF l.saw_done THEN "COPY"
                              ELSE IF fend(l) THEN "NEW_FRAME" ELSE "WRITE"
      [] l.state = "NEW_FRAME" -> "WRITE"
      [] l.state = "COPY" -> IF cdone(l) THEN "NEW_FRAME" ELSE "COPY"
      [] l.state = "WAIT" -> IF l.saw_done THEN "COPY" ELSE "WAIT"
      [] l.state = "RESET" -> IF cdone(l) THEN "WAIT" ELSE "RESET"

\* controller: next_state
CtlNextState(l) ==
    CASE l.state = "WRITE" -> IF fend(l)
                              THEN (IF l.saw_done THEN "COPY" ELSE "NEW_FRAME")
                              ELSE "WRITE"
      [] l.state = "NEW_FRAME" -> "WRITE"
      [] l.state = "COPY" -> IF cdone(l) THEN "NEW_FRAME" ELSE "COPY"
      [] l.state = "WAIT" -> IF l.saw_done THEN "COPY" ELSE "WAIT"
      [] l.state = "RESET" -> IF cdone(l) THEN "WAIT" ELSE "RESET"

\* the frame_writer's next state, with DONE left for the next frame at once
FwNextState_restart(l) ==
    CASE l.wstate = "WAIT" -> IF fstart(l) THEN "WRITE_ROW" ELSE "WAIT"
      [] l.wstate = "WRITE_ROW" ->
            IF l.col = AllOnes(ColBits) /\ l.mclk_div = AllOnes(MCLK_DIV_BITS)
            THEN "LATCH" ELSE "WRITE_ROW"
      [] l.wstate = "LATCH" ->
            IF l.latch_count = AllOnes(LatchBits) THEN "ROW_END" ELSE "LATCH"
      [] l.wstate = "ROW_END" ->
            IF l.row = AllOnes(RowBits) THEN "DONE" ELSE "WRITE_ROW"
      [] l.wstate = "DONE" -> "WRITE_ROW"

\* frame_writer: next_state
FwNextState(l) ==
    CASE l.wstate = "WAIT" -> IF fstart(l) THEN "WRITE_ROW" ELSE "WAIT"
      [] l.wstate = "WRITE_ROW" ->
            IF l.col = AllOnes(ColBits) /\ l.mclk_div = AllOnes(MCLK_DIV_BITS)
            THEN "LATCH" ELSE "WRITE_ROW"
      [] l.wstate = "LATCH" ->
            IF l.latch_count = AllOnes(LatchBits) THEN "ROW_END" ELSE "LATCH"
      [] l.wstate = "ROW_END" ->
            IF l.row = AllOnes(RowBits) THEN "DONE" ELSE "WRITE_ROW"
      [] l.wstate = "DONE" -> "WAIT"

\* what the rising edge does to the rams: the word written, if any, and
\* the controller's waddr at that edge
RamWrite(l) ==
    IF lo_we(l) THEN [ram |-> "lo_ram", addr |-> addr(l), waddr |-> l.waddr]
    ELSE IF hi_we(l)
    THEN [ram |-> "hi_ram", addr |-> addr(l), waddr |-> l.waddr]
    ELSE <<>>

\* the registers after the reset edge that starts the run: the reset of
\* waddr is overridden by waddr <= raddr, and raddr was anything before
LedInit ==
    /\ data = <<>>
    /\ x0 = <<>>
    /\ calls = <<>>
    /\ lin = LinIdle
    /\ CIdle
    /\ StepIdle
    /\ ply = <<>>
    /\ led \in [state : {"RESET"}, raddr : {0}, saw_done : {FALSE},
                waddr : 0..AllOnes(AddrBits),
                wstate : {"WAIT"}, row : {0}, col : {0}, mclk_div : {0},
                latch_count : {0},
                reset : {TRUE}, rdone : {FALSE}, ramw : {<<>>},
                shown : {FALSE}]

\* a rising edge of clk with reset low and the frame_reader's rdone as given
Clock ==
    /\ led # <<>>
    /\ \E rd \in BOOLEAN :
          led' = [led EXCEPT
              !.state = CtlNextState(led),
              !.raddr = IF led.state = "COPY" \/ led.state = "RESET"
                        THEN Incr(led.raddr, AddrBits) ELSE led.raddr,
              !.saw_done = IF led.state = "COPY" THEN FALSE
                           ELSE IF rd THEN TRUE ELSE led.saw_done,
              !.waddr = led.raddr,
              !.wstate = FwNextState(led),
              !.mclk_div = IF led.wstate = "WRITE_ROW"
                           THEN Incr(led.mclk_div, MCLK_DIV_BITS)
                           ELSE led.mclk_div,
              !.col = IF /\ led.wstate = "WRITE_ROW"
                         /\ led.mclk_div = AllOnes(MCLK_DIV_BITS)
                      THEN Incr(led.col, ColBits) ELSE led.col,
              !.latch_count = IF led.wstate = "LATCH"
                              THEN Incr(led.latch_count, LatchBits)
                              ELSE led.latch_count,
              !.row = IF led.wstate = "ROW_END"
                      THEN Incr(led.row, RowBits) ELSE led.row,
              !.reset = FALSE,
              !.rdone = rd,
              !.ramw = RamWrite(led),
              !.shown = led.shown \/ fend(led)]
    /\ UNCHANGED <<data, x0, calls, lin, cn, cmem, ccalls, srt, lut, bufs,
                   thr, ply>>

\* a rising edge of clk with reset high
Reset ==
    /\ led # <<>>
    /\ led' = [led EXCEPT
          !.state = "RESET", !.raddr = 0, !.saw_done = FALSE,
          !.waddr = led.raddr,
          !.wstate = "WAIT", !.row = 0, !.col = 0, !.mclk_div = 0,
          !.latch_count = 0,
          !.reset = TRUE, !.rdone = FALSE,
          !.ramw = RamWrite(led),
          !.shown = led.shown \/ fend(led)]
    /\ UNCHANGED <<data, x0, calls, lin, cn, cmem, ccalls, srt, lut, bufs,
                   thr, ply>>

LedNext == Clock \/ Reset

SpecLed == LedInit /\ [][LedNext]_vars

\* --------------------------------------------------- the driver's claims

\* C26: whenever the controller asserts we, in state COPY in particular,
\* the frame_writer is in WAIT, so that every word written to the display
\* buffer goes to the controller's address waddr (its low bits select the
\* word, its top bit the ram) and none to the address being scanned out.
C26_CopyOnlyWhileWaiting ==
    led # <<>> =>
        /\ we(led) => led.wstate = "WAIT"
        /\ led.ramw # <<>> =>
              /\ led.ramw.addr = led.ramw.waddr % Pow2(AddrBits - 1)
              /\ led.ramw.ram = IF led.ramw.waddr < Pow2(AddrBits - 1)
                                THEN "lo_ram" ELSE "hi_ram"

\* the controller is copying a frame into the upper ram after the
\* frame_writer has written a frame out
C26_Witness ==
    /\ led # <<>>
    /\ led.state = "COPY"
    /\ led.wstate = "WAIT"
    /\ led.shown
    /\ led.ramw # <<>>
    /\ led.ramw.ram = "hi_ram"
    /\ led.ramw.addr > 0

\* fstart is raised and the edge that follows has reset low
Pulse == led # <<>> /\ fstart(led) /\ ~led'.reset

\* C27: fstart is never raised on two clock edges in a row; with reset
\* low, NEW_FRAME is followed by WRITE at the next edge; the frame_writer
\* is in WAIT, at row 0 and column 0, whenever fstart is raised, and at
\* the next edge with reset low it is in WRITE_ROW at the start of a frame.
C27_FstartPulse ==
    /\ [](led # <<>> /\ fstart(led) =>
             /\ led.wstate = "WAIT"
             /\ led.row = 0
             /\ led.col = 0
             /\ led.mclk_div = 0)
    /\ [][led # <<>> /\ fstart(led) => ~fstart(led')]_vars
    /\ [][Pulse => /\ led'.state = "WRITE"
                   /\ led'.wstate = "WRITE_ROW"
                   /\ led'.row = 0
                   /\ led'.col = 0
                   /\ led'.mclk_div = 0]_vars

\* the edge after the pulse that starts a second frame
C27_Witness ==
    /\ led # <<>>
    /\ ~led.reset
    /\ led.shown
    /\ led.state = "WRITE"
    /\ led.wstate = "WRITE_ROW"
    /\ led.row = 0
    /\ led.col = 0
    /\ led.mclk_div = 0

\* C28: at a clock edge with reset low where fend is raised, the
\* frame_writer's row, col and mclk_div stay as they are, and fend stays
\* raised unless fstart is raised by that edge.
C28_FendHeldUntilFstart ==
    [][(led # <<>> /\ fend(led) /\ ~led'.reset) =>
          /\ led'.row = led.row
          /\ led'.col = led.col
          /\ led'.mclk_div = led.mclk_div
          /\ (fend(led') \/ fstart(led) \/ fstart(led'))]_vars

====
